---------------------------- MODULE Spec2Model ----------------------------
(***************************************************************************)
(* State-machine model of the outreach mass-email service:                 *)
(*   - utils/retry.py            RetryManager (classification + wrapper)   *)
(*   - utils/rate_limiter.py     TokenBucketRateLimiter                    *)
(*   - scheduler/*.py            SchedulerLoop._tick, ScheduleRunner       *)
(*   - executor/workflow_executor.py  WorkflowExecutor.execute_workflow    *)
(* Every component has its own specification (SpecRetry, SpecLimiter,      *)
(* SpecSched, SpecExec); the variables of the other components keep their  *)
(* initial value under it.                                                 *)
(*                                                                         *)
(* Concurrency model: the service is one asyncio event loop.  Code between *)
(* two awaits runs without interleaving, so one action is one such segment.*)
(* The backend HTTP calls are blocking (requests), they take time but do   *)
(* not yield to other tasks.  Time is the integer clock `now`, in seconds. *)
(***************************************************************************)
EXTENDS Integers, Sequences, FiniteSets, TLC

VARIABLES
    now,        \* the clock (time.monotonic / datetime.now), seconds
    rt,         \* one invocation of the with_retry wrapper
    rtHist,     \* outcomes of the wrapped operation's calls, in order
    rl,         \* TokenBucketRateLimiter fields: rate_limit, tokens, last_refill
    callers,    \* concurrent callers of acquire(): position and wake-up time
    acqLog,     \* times at which acquire() returned, in order
    sched,      \* the backend's schedule records, by schedule id
    runners,    \* the unfinished run_schedule tasks, in creation order
    lastRun,    \* what the last step of a run_schedule task did (calls it issued)
    ex,         \* one execute_workflow call: position, inputs, counters, result
    rcp,        \* the process_recipient tasks of the run, by position in the list
    semWaiters, \* recipients waiting for the semaphore, first come first
    logWrites,  \* the creations and updates issued to the run's execution log
    vd,         \* resolve / validate_emails calls of one process and its MX cache
    eb,         \* one EngineBuilder.build call: the config and what came of it
    lg          \* the log entries two execute_workflow calls create, by run

retryVars == <<rt, rtHist>>
limiterVars == <<rl, callers, acqLog>>
schedVars == <<sched, runners, lastRun>>
execVars == <<ex, rcp, semWaiters, logWrites>>
utilVars == <<vd, eb, lg>>
vars == <<now, rt, rtHist, rl, callers, acqLog, sched, runners, lastRun,
          ex, rcp, semWaiters, logWrites, vd, eb, lg>>

Min(a, b) == IF a <= b THEN a ELSE b
Max(a, b) == IF a >= b THEN a ELSE b

RECURSIVE Pow2(_)
Pow2(n) == IF n <= 0 THEN 1 ELSE 2 * Pow2(n - 1)

(***************************************************************************)
(* utils/retry.py                                                          *)
(***************************************************************************)

\* Largest max_attempts the retry specification tries (1..MaxAttemptsBound).
MaxAttemptsBound == 4

\* str(exception) of the errors the wrapped operation raises, as character
\* sequences, so that lower() and the substring test are computed.
ErrTimeout == <<"T", "i", "m", "e", "o", "u", "t">>
Err503 == <<"E", "r", "r", " ", "5", "0", "3">>
ErrRejected == <<"5", "5", "0", " ", "n", "o">>
ErrMailbox == <<"b", "o", "x", " ", "1", "5", "0", "0", "4">>
ErrorMessages == {ErrTimeout, Err503, ErrRejected, ErrMailbox}

\* str.lower() on the characters the messages use.
LowerChar(c) ==
    CASE c = "T" -> "t"
      [] c = "E" -> "e"
      [] c = "C" -> "c"
      [] c = "R" -> "r"
      [] c = "A" -> "a"
      [] c = "X" -> "x"
      [] OTHER -> c

Lower(s) == [i \in 1..Len(s) |-> LowerChar(s[i])]

\* Python's `keyword in error_msg` on strings.
Contains(s, k) ==
    \E i \in 1..(Len(s) - Len(k) + 1) : SubSeq(s, i, i + Len(k) - 1) = k

transient_keywords ==
    { <<"t", "i", "m", "e", "o", "u", "t">>,
      <<"c", "o", "n", "n", "e", "c", "t", "i", "o", "n">>,
      <<"r", "a", "t", "e", " ", "l", "i", "m", "i", "t">>,
      <<"4", "2", "9">>,
      <<"5", "0", "0">>, <<"5", "0", "2">>, <<"5", "0", "3">>, <<"5", "0", "4">> }

\* Mutant of is_transient_error: every error is taken to be transient.
is_transient_error_always(e) == TRUE

is_transient_error(e) ==
    \E k \in transient_keywords : Contains(Lower(e), k)

\* with_retry's default base_delay and max_delay, in seconds.
base_delay == 1
max_delay == 10

\* delay = min(base_delay * 2^(attempt-1), max_delay); the jitter of at most
\* 10 percent is below the clock's resolution: a sleeper may wake late by any
\* amount, which covers it.
BackoffDelay(attempt) == Min(base_delay * Pow2(attempt - 1), max_delay)

\* Mutant of RetryOnException: off by one in the exhaustion test.
RetryOnExceptionOffByOne(attempt, max_attempts, e) ==
    LET a == attempt + 1 IN
    IF a > max_attempts THEN [next |-> "raise", attempt |-> a, delay |-> 0]
    ELSE IF ~is_transient_error(e) THEN [next |-> "raise", attempt |-> a, delay |-> 0]
    ELSE [next |-> "sleep", attempt |-> a, delay |-> BackoffDelay(a)]

\* The except branch of the wrapper: what follows a call that raised e.
RetryOnException(attempt, max_attempts, e) ==
    LET a == attempt + 1 IN
    IF a >= max_attempts THEN [next |-> "raise", attempt |-> a, delay |-> 0]
    ELSE IF ~is_transient_error(e) THEN [next |-> "raise", attempt |-> a, delay |-> 0]
    ELSE [next |-> "sleep", attempt |-> a, delay |-> BackoffDelay(a)]

RetryIdle ==
    /\ rt = [pc |-> "calling", max_attempts |-> 3, attempt |-> 0, calls |-> 0,
             sleeps |-> 0, wakeAt |-> 0, error |-> <<>>]
    /\ rtHist = <<>>

\* The wrapper is entered: attempt = 0 and the first call is under way.
RetryInit ==
    /\ \E n \in 1..MaxAttemptsBound :
          rt = [pc |-> "calling", max_attempts |-> n, attempt |-> 0, calls |-> 0,
                sleeps |-> 0, wakeAt |-> 0, error |-> <<>>]
    /\ rtHist = <<>>

\* `return await func(...)`: the call returns v (the provider's bool).
RetryFuncReturns(v) ==
    /\ rt.pc = "calling"
    /\ rt' = [rt EXCEPT !.pc = "returned", !.calls = @ + 1]
    /\ rtHist' = Append(rtHist, [kind |-> "return", value |-> v])
    /\ UNCHANGED <<now, limiterVars, schedVars, execVars, utilVars>>

\* The call raises an exception that retry_on catches: a sleep, or `raise e`
\* (error: the exception the wrapper raised).
RetryFuncRaises(e) ==
    /\ rt.pc = "calling"
    /\ LET d == RetryOnException(rt.attempt, rt.max_attempts, e) IN
          rt' = [rt EXCEPT !.pc = IF d.next = "sleep" THEN "sleeping" ELSE "raised",
                           !.calls = @ + 1,
                           !.attempt = d.attempt,
                           !.sleeps = IF d.next = "sleep" THEN @ + 1 ELSE @,
                           !.wakeAt = IF d.next = "sleep" THEN now + d.delay ELSE @,
                           !.error = IF d.next = "raise" THEN e ELSE @]
    /\ rtHist' = Append(rtHist, [kind |-> "raise", value |-> e])
    /\ UNCHANGED <<now, limiterVars, schedVars, execVars, utilVars>>

\* `await asyncio.sleep(final_delay)` is over: the loop calls func again.
RetrySleepDone ==
    /\ rt.pc = "sleeping"
    /\ now >= rt.wakeAt
    /\ rt' = [rt EXCEPT !.pc = "calling"]
    /\ UNCHANGED <<now, rtHist, limiterVars, schedVars, execVars, utilVars>>

\* Longest time the retry specification lets pass.
MaxRetryTime == 8

RetryTimePasses ==
    /\ now < MaxRetryTime
    /\ now' = now + 1
    /\ UNCHANGED <<retryVars, limiterVars, schedVars, execVars, utilVars>>

(***************************************************************************)
(* utils/rate_limiter.py                                                   *)
(***************************************************************************)

\* `if time_passed > 60` and `wait_time = 60 - time_passed`: the window, seconds.
RefillWindow == 60

\* Number of concurrent callers of acquire() and of calls each of them makes.
NumCallers == 2
MaxCallsPerCaller == 2
\* Smallest and largest rate_limit_per_minute the limiter specification tries.
MinRateLimit == -1
MaxRateLimit == 2
\* Largest number of tokens a caller asks of a limiter that does not limit.
MaxTokensAsked == 3
\* The clock of the limiter specification stops here.
MaxLimiterTime == 124
\* How much the clock advances in one step of the environment.
TimeSteps == {30, 31}

Callers == 1..NumCallers

\* __init__: a full bucket, last_refill = construction time.
LimiterNew(rate_limit_per_minute, t) ==
    [rate_limit |-> rate_limit_per_minute, tokens |-> rate_limit_per_minute,
     last_refill |-> t]

\* Mutant of LimiterEnter: the bucket is refilled on every attempt.
LimiterEnterAlwaysRefill(b, n, t) ==
    LET time_passed == t - b.last_refill
        r == [b EXCEPT !.tokens = b.rate_limit, !.last_refill = t]
    IN  IF r.tokens >= n
        THEN [rl |-> [r EXCEPT !.tokens = @ - n], granted |-> TRUE, wait_time |-> 0]
        ELSE [rl |-> r, granted |-> FALSE, wait_time |-> RefillWindow - time_passed]

\* Mutant of LimiterEnter: the bucket is never refilled.
LimiterEnterNeverRefills(b, n, t) ==
    LET time_passed == t - b.last_refill
    IN  IF b.tokens >= n
        THEN [rl |-> [b EXCEPT !.tokens = @ - n], granted |-> TRUE, wait_time |-> 0]
        ELSE [rl |-> b, granted |-> FALSE, wait_time |-> RefillWindow - time_passed]

\* One pass through `async with self.lock:` for a request of n tokens at time t:
\* refill when more than 60 s have passed, then deduct or compute the wait.
LimiterEnter(b, n, t) ==
    LET time_passed == t - b.last_refill
        r == IF time_passed > RefillWindow
             THEN [b EXCEPT !.tokens = b.rate_limit, !.last_refill = t]
             ELSE b
    IN  IF r.tokens >= n
        THEN [rl |-> [r EXCEPT !.tokens = @ - n], granted |-> TRUE, wait_time |-> 0]
        ELSE [rl |-> r, granted |-> FALSE, wait_time |-> RefillWindow - time_passed]

\* Where a caller is after one pass that returned d.
CallerAfter(c, d) ==
    IF d.granted
    THEN [c EXCEPT !.pc = "idle", !.served = @ + 1]
    ELSE IF d.wait_time > 0
         THEN [c EXCEPT !.pc = "sleeping", !.wakeAt = now + d.wait_time]
         ELSE [c EXCEPT !.pc = "spinning"]

\* A caller that got wait_time <= 0 loops without awaiting: no other task of the
\* event loop runs until it got its tokens.
NoSpinner == \A c \in DOMAIN callers : callers[c].pc # "spinning"

LimiterIdle ==
    /\ rl = LimiterNew(0, 0)
    /\ callers = <<>>
    /\ acqLog = <<>>

LimiterInit ==
    /\ \E r \in MinRateLimit..MaxRateLimit : rl = LimiterNew(r, 0)
    /\ callers = [c \in Callers |-> [pc |-> "idle", served |-> 0, wakeAt |-> 0]]
    /\ acqLog = <<>>

\* Mutant of Unlimited: only a limit of zero disables the limiter.
UnlimitedOnlyZero(b) == b.rate_limit = 0

\* if self.rate_limit <= 0: return
Unlimited(b) == b.rate_limit <= 0

\* acquire(tokens) with rate_limit <= 0: returns at once, whatever tokens is.
AcquireUnlimited(c, tokens) ==
    /\ callers[c].pc = "idle"
    /\ callers[c].served < MaxCallsPerCaller
    /\ NoSpinner
    /\ Unlimited(rl)
    /\ callers' = [callers EXCEPT ![c].served = @ + 1]
    /\ acqLog' = Append(acqLog, now)
    /\ UNCHANGED <<now, rl, retryVars, schedVars, execVars, utilVars>>

\* One pass of a caller through the critical section.
LimiterPass(c) ==
    LET d == LimiterEnter(rl, 1, now) IN
    /\ rl' = d.rl
    /\ callers' = [callers EXCEPT ![c] = CallerAfter(callers[c], d)]
    /\ acqLog' = IF d.granted THEN Append(acqLog, now) ELSE acqLog
    /\ UNCHANGED <<now, retryVars, schedVars, execVars, utilVars>>

\* acquire(1) is called: the first pass of the loop.
AcquireCall(c) ==
    /\ callers[c].pc = "idle"
    /\ callers[c].served < MaxCallsPerCaller
    /\ NoSpinner
    /\ ~Unlimited(rl)
    /\ LimiterPass(c)

\* `await asyncio.sleep(wait_time)` is over: the next pass.
AcquireWake(c) ==
    /\ callers[c].pc = "sleeping"
    /\ now >= callers[c].wakeAt
    /\ NoSpinner
    /\ LimiterPass(c)

\* wait_time <= 0: the next pass follows without a sleep.
AcquireSpin(c) ==
    /\ callers[c].pc = "spinning"
    /\ LimiterPass(c)

LimiterTimePasses ==
    /\ \E d \in TimeSteps :
          /\ now + d <= MaxLimiterTime
          /\ now' = now + d
    /\ UNCHANGED <<retryVars, limiterVars, schedVars, execVars, utilVars>>

(***************************************************************************)
(* utils/rate_limiter.py, statement by statement: the lock is explicit and *)
(* callers interleave between any two statements of acquire().             *)
(***************************************************************************)

\* __init__ with the lock (0: free, else the caller holding it) and the number
\* of tokens handed out since the last refill.
LockedLimiterNew(rate_limit_per_minute, t) ==
    [rate_limit |-> rate_limit_per_minute, tokens |-> rate_limit_per_minute,
     last_refill |-> t, lock |-> 0, granted |-> 0]

\* Mutant of LockFree: the lock admits a caller while another holds it.
LockFreeAlways(b) == TRUE

\* asyncio.Lock.acquire: granted when nobody holds the lock.
LockFree(b) == b.lock = 0

LockInit ==
    /\ \E r \in 1..MaxRateLimit : rl = LockedLimiterNew(r, 0)
    /\ callers = [c \in Callers |->
                    [pc |-> "idle", served |-> 0, wakeAt |-> 0, time_passed |-> 0]]
    /\ acqLog = <<>>

\* acquire(1) is called with rate_limit > 0: the caller reaches `async with`.
LockCall(c) ==
    /\ callers[c].pc = "idle"
    /\ callers[c].served < MaxCallsPerCaller
    /\ ~Unlimited(rl)
    /\ callers' = [callers EXCEPT ![c].pc = "entering"]
    /\ UNCHANGED <<now, rl, acqLog, retryVars, schedVars, execVars, utilVars>>

\* async with self.lock: the caller gets the lock.
LockEnter(c) ==
    /\ callers[c].pc = "entering"
    /\ LockFree(rl)
    /\ rl' = [rl EXCEPT !.lock = c]
    /\ callers' = [callers EXCEPT ![c].pc = "refill"]
    /\ UNCHANGED <<now, acqLog, retryVars, schedVars, execVars, utilVars>>

\* now = time.monotonic(); time_passed = ...; the refill when it is over 60.
LockRefill(c) ==
    LET time_passed == now - rl.last_refill IN
    /\ callers[c].pc = "refill"
    /\ rl' = IF time_passed > RefillWindow
             THEN [rl EXCEPT !.tokens = rl.rate_limit, !.last_refill = now, !.granted = 0]
             ELSE rl
    /\ callers' = [callers EXCEPT ![c].pc = "check", ![c].time_passed = time_passed]
    /\ UNCHANGED <<now, acqLog, retryVars, schedVars, execVars, utilVars>>

\* if self.tokens >= tokens: the branch is chosen.
LockCheck(c) ==
    /\ callers[c].pc = "check"
    /\ callers' = [callers EXCEPT ![c].pc = IF rl.tokens >= 1 THEN "deduct" ELSE "leave"]
    /\ UNCHANGED <<now, rl, acqLog, retryVars, schedVars, execVars, utilVars>>

\* self.tokens -= tokens; return: the lock is released on the way out.
LockDeduct(c) ==
    /\ callers[c].pc = "deduct"
    /\ rl' = [rl EXCEPT !.tokens = @ - 1, !.granted = @ + 1,
                        !.lock = IF @ = c THEN 0 ELSE @]
    /\ callers' = [callers EXCEPT ![c].pc = "idle", ![c].served = @ + 1]
    /\ UNCHANGED <<now, acqLog, retryVars, schedVars, execVars, utilVars>>

\* wait_time = 60 - time_passed; the block ends and releases the lock; the
\* caller sleeps when wait_time > 0 and otherwise loops at once.
LockLeave(c) ==
    LET wait_time == RefillWindow - callers[c].time_passed IN
    /\ callers[c].pc = "leave"
    /\ rl' = [rl EXCEPT !.lock = IF @ = c THEN 0 ELSE @]
    /\ callers' = [callers EXCEPT
                     ![c].pc = IF wait_time > 0 THEN "sleeping" ELSE "entering",
                     ![c].wakeAt = IF wait_time > 0 THEN now + wait_time ELSE @]
    /\ UNCHANGED <<now, acqLog, retryVars, schedVars, execVars, utilVars>>

\* asyncio.sleep(wait_time) is over: `while True` starts the next pass.
LockWake(c) ==
    /\ callers[c].pc = "sleeping"
    /\ now >= callers[c].wakeAt
    /\ callers' = [callers EXCEPT ![c].pc = "entering"]
    /\ UNCHANGED <<now, rl, acqLog, retryVars, schedVars, execVars, utilVars>>

(***************************************************************************)
(* scheduler/schedule_runner.py, scheduler/scheduler_loop.py,              *)
(* api_clients/schedule_client.py                                          *)
(***************************************************************************)

\* Number of schedules the backend holds and of run_schedule tasks created.
NumSchedules == 2
MaxRunners == 2
\* The clock of the scheduler specification stops after this many half days.
MaxSchedHalfDays == 2

\* The scheduler's clock and its times count ticks, this many to the second
\* (datetime.now() is finer than the whole seconds the service writes).
TicksPerSecond == 2

\* timedelta(days=1), in seconds.
Day == 86400
DayTicks == Day * TicksPerSecond

\* The scheduler starts at this time, this many days after the oldest due time
\* a schedule holds.
DowntimeDays == 3
SchedStart == DowntimeDays * DayTicks

\* strftime('%Y-%m-%d %H:%M:%S'), read back: the fraction of a second is dropped.
FormatSeconds(t) == t - (t % TicksPerSecond)

Schedules == 1..NumSchedules
\* A schedule without next_run_at.
NoTime == -1
Frequencies == {"daily", "weekly", "monthly"}
\* What execute_workflow returns in "status" (its return statements).
ReturnedStatuses == {"success", "failed", "timed_out"}

\* The recurrence interval chosen from schedule["frequency"].
FrequencyDelta(freq) ==
    IF freq = "weekly" THEN 7 * DayTicks
    ELSE IF freq = "monthly" THEN 30 * DayTicks
    ELSE DayTicks

\* Mutant of AdvanceToFuture: the loop stops at a time equal to now.
RECURSIVE AdvanceToFutureNotStrict(_, _, _)
AdvanceToFutureNotStrict(t, delta, n) ==
    IF t < n THEN AdvanceToFutureNotStrict(t + delta, delta, n) ELSE t

\* `while current_next_dt <= now: current_next_dt += delta`
RECURSIVE AdvanceToFuture(_, _, _)
AdvanceToFuture(t, delta, n) ==
    IF t <= n THEN AdvanceToFuture(t + delta, delta, n) ELSE t

\* The backend's POST /orchestrator/schedules/{id}/lock, which the service
\* consumes: an atomic test-and-set of is_running.
BackendLock(rec) ==
    IF rec.is_running = 0
    THEN [success |-> TRUE, rec |-> [rec EXCEPT !.is_running = 1]]
    ELSE [success |-> FALSE, rec |-> rec]

\* ScheduleClient.lock_schedule: the response's "success", False when the HTTP
\* call failed (`ok` is FALSE: _post returned None).
lock_schedule(rec, ok) ==
    IF ok THEN BackendLock(rec) ELSE [success |-> FALSE, rec |-> rec]

\* Mutant of MayExecute: the runner goes on whatever lock_schedule returned.
MayExecuteUnlocked(locked) == TRUE

\* `if not self.schedule_client.lock_schedule(schedule_id): return`
MayExecute(locked) == locked

\* Mutant of LockRefused: the refused runner clears the flag on its way out.
LockRefusedUnlocks(rec) == [rec EXCEPT !.is_running = 0]

\* `if not lock_schedule(...): return`: what a refused runner leaves of the
\* schedule record (the return is outside the try/finally).
LockRefused(rec) == rec

\* Mutant of RunUpdates: the update does not carry is_running = 0.
RunUpdatesKeepsLock(rec, fetched, status, t) ==
    [rec EXCEPT
       !.last_run_at = FormatSeconds(t),
       !.run_parameters = IF status = "success" THEN "none" ELSE @,
       !.next_run_at =
          IF fetched.next_run_at # NoTime
          THEN FormatSeconds(AdvanceToFuture(fetched.next_run_at,
                                             FrequencyDelta(fetched.frequency), t))
          ELSE @]

\* The updates dict built after execute_workflow returned `status`, applied to
\* the record: `fetched` is the schedule as the runner read it before locking.
RunUpdates(rec, fetched, status, t) ==
    [rec EXCEPT
       !.last_run_at = FormatSeconds(t),
       !.is_running = 0,
       !.run_parameters = IF status = "success" THEN "none" ELSE @,
       !.next_run_at =
          IF fetched.next_run_at # NoTime
          THEN FormatSeconds(AdvanceToFuture(fetched.next_run_at,
                                             FrequencyDelta(fetched.frequency), t))
          ELSE @]

\* Mutant of FinalUnlock: the finally block leaves the schedule as it is.
FinalUnlockNever(rec, getOk, putOk) == rec

\* The finally block: read the schedule again and unlock it if still locked.
\* getOk, putOk: whether the two HTTP calls succeed.
FinalUnlock(rec, getOk, putOk) ==
    IF getOk /\ rec.is_running = 1 /\ putOk THEN [rec EXCEPT !.is_running = 0] ELSE rec

\* Number of PUTs the finally block issues.
FinalUnlockPuts(rec, getOk) == IF getOk /\ rec.is_running = 1 THEN 1 ELSE 0

\* Which of the runner's closing HTTP calls succeed: the update, the finally
\* block's get and its unlocking update (the last two matter only when the
\* schedule is still locked, that is when the first update failed).
HttpOutcomes ==
    { [put |-> TRUE, get |-> TRUE, put2 |-> TRUE],
      [put |-> FALSE, get |-> FALSE, put2 |-> FALSE],
      [put |-> FALSE, get |-> TRUE, put2 |-> FALSE],
      [put |-> FALSE, get |-> TRUE, put2 |-> TRUE] }

\* The step issued none of the runner's closing HTTP calls.
NoHttp == [put |-> FALSE, get |-> FALSE, put2 |-> FALSE]

\* No run_schedule step has been taken yet.
NoRun == [sid |-> 0, step |-> "none", executor |-> FALSE, puts |-> 0, http |-> NoHttp, listed |-> {}]

\* The kinds of schedule the backend holds at the start.
ScheduleProfiles ==
    { [status |-> "active", next_run_at |-> 0, frequency |-> "daily"],
      [status |-> "active", next_run_at |-> SchedStart, frequency |-> "daily"],
      [status |-> "active", next_run_at |-> 0, frequency |-> "weekly"],
      [status |-> "active", next_run_at |-> SchedStart, frequency |-> "monthly"],
      [status |-> "active", next_run_at |-> NoTime, frequency |-> "daily"],
      [status |-> "paused", next_run_at |-> 0, frequency |-> "daily"] }

SchedIdle ==
    /\ sched = <<>>
    /\ runners = <<>>
    /\ lastRun = NoRun

SchedInit ==
    /\ \E prof \in [Schedules -> ScheduleProfiles] :
          sched = [s \in Schedules |->
                     [status |-> prof[s].status, is_running |-> 0,
                      next_run_at |-> prof[s].next_run_at, last_run_at |-> NoTime,
                      run_parameters |-> "params", frequency |-> prof[s].frequency]]
    /\ runners = <<>>
    /\ lastRun = NoRun

SchedInOrder(S) == SelectSeq([i \in 1..NumSchedules |-> i], LAMBDA i : i \in S)

\* The task list without the task that returned.
Finished(r) == [i \in 1..(Len(runners) - 1) |-> IF i < r THEN runners[i] ELSE runners[i + 1]]

\* SchedulerLoop._tick, the test of one listed schedule: next_run_at is present
\* and not later than the tick's reading of the clock.
IsDueAbsentCounts(rec, t) == rec.next_run_at <= t

IsDue(rec, t) == rec.next_run_at # NoTime /\ rec.next_run_at <= t

\* SchedulerLoop._tick: the backend lists some schedules; one run_schedule task
\* is created for each listed schedule that is due, none awaited.
Tick ==
    \E listed \in SUBSET Schedules :
       LET due == {s \in listed : IsDue(sched[s], now)}
           new == SchedInOrder(due)
       IN  /\ Len(runners) + Len(new) <= MaxRunners
           /\ runners' = runners \o
                 [i \in 1..Len(new) |->
                    [pc |-> "launched", sid |-> new[i],
                     next_run_at |-> NoTime, frequency |-> "daily"]]
           /\ lastRun' = [NoRun EXCEPT !.step = "tick", !.listed = listed]
           /\ UNCHANGED <<now, sched, retryVars, limiterVars, execVars, utilVars>>

\* run_schedule up to `return` (schedule missing or not active).
RunnerNotActive(r) ==
    /\ runners[r].pc = "launched"
    /\ \E getOk \in BOOLEAN : ~getOk \/ sched[runners[r].sid].status # "active"
    /\ runners' = Finished(r)
    /\ lastRun' = [sid |-> runners[r].sid, step |-> "not_active",
                   executor |-> FALSE, puts |-> 0, http |-> NoHttp, listed |-> {}]
    /\ UNCHANGED <<now, sched, retryVars, limiterVars, execVars, utilVars>>

\* run_schedule: the lock is refused, the runner returns.
RunnerLockRefused(r) ==
    LET s == runners[r].sid IN
    /\ runners[r].pc = "launched"
    /\ sched[s].status = "active"
    /\ \E ok \in BOOLEAN :
          LET l == lock_schedule(sched[s], ok) IN
          /\ ~MayExecute(l.success)
          /\ sched' = [sched EXCEPT ![s] = LockRefused(l.rec)]
    /\ runners' = Finished(r)
    /\ lastRun' = [sid |-> s, step |-> "lock_refused", executor |-> FALSE, puts |-> 0, http |-> NoHttp, listed |-> {}]
    /\ UNCHANGED <<now, retryVars, limiterVars, execVars, utilVars>>

\* run_schedule: the lock is acquired and execute_workflow is awaited.
RunnerLockAcquired(r) ==
    LET s == runners[r].sid IN
    /\ runners[r].pc = "launched"
    /\ sched[s].status = "active"
    /\ \E ok \in BOOLEAN :
          LET l == lock_schedule(sched[s], ok) IN
          /\ MayExecute(l.success)
          /\ sched' = [sched EXCEPT ![s] = l.rec]
    /\ runners' = [runners EXCEPT ![r].pc = "executing",
                                  ![r].next_run_at = sched[s].next_run_at,
                                  ![r].frequency = sched[s].frequency]
    /\ lastRun' = [sid |-> s, step |-> "lock_acquired", executor |-> TRUE, puts |-> 0, http |-> NoHttp, listed |-> {}]
    /\ UNCHANGED <<now, retryVars, limiterVars, execVars, utilVars>>

\* execute_workflow returned: the update of the schedule, then the finally block.
RunnerExecutorReturns(r, status) ==
    LET s == runners[r].sid IN
    /\ runners[r].pc = "executing"
    /\ \E f \in HttpOutcomes :
          LET afterPut == IF f.put THEN RunUpdates(sched[s], runners[r], status, now)
                          ELSE sched[s]
          IN  /\ sched' = [sched EXCEPT ![s] = FinalUnlock(afterPut, f.get, f.put2)]
              /\ lastRun' = [sid |-> s, step |-> status, executor |-> FALSE,
                             puts |-> 1 + FinalUnlockPuts(afterPut, f.get), http |-> f, listed |-> {}]
    /\ runners' = Finished(r)
    /\ UNCHANGED <<now, retryVars, limiterVars, execVars, utilVars>>

\* execute_workflow raised: the except branch unlocks, then the finally block.
RunnerExecutorRaises(r) ==
    LET s == runners[r].sid IN
    /\ runners[r].pc = "executing"
    /\ \E f \in HttpOutcomes :
          LET afterPut == IF f.put THEN [sched[s] EXCEPT !.is_running = 0] ELSE sched[s]
          IN  /\ sched' = [sched EXCEPT ![s] = FinalUnlock(afterPut, f.get, f.put2)]
              /\ lastRun' = [sid |-> s, step |-> "raised", executor |-> FALSE,
                             puts |-> 1 + FinalUnlockPuts(afterPut, f.get), http |-> f, listed |-> {}]
    /\ runners' = Finished(r)
    /\ UNCHANGED <<now, retryVars, limiterVars, execVars, utilVars>>

\* The process dies while a runner awaits execute_workflow and is started
\* again: its tasks are gone, the backend keeps the schedules as they were.
Crash ==
    /\ \E r \in DOMAIN runners : runners[r].pc = "executing"
    /\ runners' = <<>>
    /\ lastRun' = [NoRun EXCEPT !.step = "crash"]
    /\ UNCHANGED <<now, sched, retryVars, limiterVars, execVars, utilVars>>

SchedTimePasses ==
    /\ \E d \in {DayTicks \div 2, DayTicks \div 2 + 1} :
          /\ now + d <= SchedStart + MaxSchedHalfDays * (DayTicks \div 2)
          /\ now' = now + d
    /\ UNCHANGED <<schedVars, retryVars, limiterVars, execVars, utilVars>>

(***************************************************************************)
(* executor/workflow_executor.py                                           *)
(***************************************************************************)

\* Largest numbers of valid and of invalid recipients a run resolves.
MaxValid == 2
MaxInvalid == 1
\* The clock of the executor specification advances by this much, up to the end.
ExecTimeStep == 31
MaxExecTime == 93
\* A timeout_seconds short enough to expire during a run; the default.
ShortTimeout == 30
default_timeout_seconds == 3600
ExecTimeouts == {ShortTimeout, default_timeout_seconds}
\* rate_limit_per_minute and batch_size of the engine configs tried.
ExecRateLimits == {1, 60}
ExecBatchSizes == {1, 2}
\* What a provider send raises in the executor specification.
ExecSendErrors == {ErrTimeout, ErrRejected}

\* What happens to one message at the provider: it is accepted, or the attempt
\* fails with an exception of the protocol library.
SendOutcomes ==
    {[ok |-> TRUE, err |-> <<>>]} \cup {[ok |-> FALSE, err |-> e] : e \in ExecSendErrors}

\* SMTPSender._send_sync (the HTTP senders alike): True once the provider took
\* the message; `except Exception` logs any failure and returns False.
send_sync(o) == o.ok

\* @RetryManager.with_retry(max_attempts=3, base_delay=1.0)
send_max_attempts == 3
\* await asyncio.sleep(2.0) after each send
post_send_delay == 2
\* `if (success_count + failed_count) % 5 == 0`
progress_every == 5
default_batch_size == 10
default_rate_limit == 60
\* The runs of progress_every recipients are explored with the defaults only,
\* and with a provider that accepts every message.
LargeRun(n) == n > MaxValid

\* A count or a text an update of the log does not carry.
NoCount == -1
NoText == "none"

TerminalStatuses == {"success", "partial_success", "failed", "timed_out"}

\* The update_data _update_status sends to the log.
update_status(status, error, processed, failed) ==
    [status |-> status, error |-> error, processed |-> processed, failed |-> failed]

\* Mutant of FinalStatus: the all-failed case is not told apart.
FinalStatusNoFailed(failed_count, n) ==
    IF failed_count = 0 THEN "success" ELSE "partial_success"

\* final_status = "success" if failed_count == 0 else "partial_success";
\* "failed" if failed_count == len(recipients) and len(recipients) > 0
FinalStatus(failed_count, n) ==
    IF failed_count = n /\ n > 0 THEN "failed"
    ELSE IF failed_count = 0 THEN "success"
    ELSE "partial_success"

\* Mutant of SendingTimedOut: the raised TimeoutError is handled as a failure.
SendingTimedOutThenFailed ==
    << update_status("timed_out", "Execution timed out during sending", NoCount, NoCount),
       update_status("failed", "Execution timed out during sending.", NoCount, NoCount) >>

\* The deadline has passed after the sends: the update before the raise and the
\* update of the TimeoutError handler.
SendingTimedOut ==
    << update_status("timed_out", "Execution timed out during sending", NoCount, NoCount),
       update_status("timed_out", "Execution timed out during sending.", NoCount, NoCount) >>

\* Mutant of CountSend: a rejected send is not counted.
CountSendOnlyAccepted(e, sent) ==
    [e EXCEPT !.completed_count = @ + 1,
              !.success_count = IF sent THEN @ + 1 ELSE @]

\* Mutant of CountSend: an accepted send is counted as a failure as well.
CountSendAlsoFailed(e, sent) ==
    [e EXCEPT !.completed_count = @ + 1,
              !.success_count = IF sent THEN @ + 1 ELSE @,
              !.failed_count = @ + 1]

\* completed_count += 1; success_count or failed_count += 1
CountSend(e, sent) ==
    [e EXCEPT !.completed_count = @ + 1,
              !.success_count = IF sent THEN @ + 1 ELSE @,
              !.failed_count = IF sent THEN @ ELSE @ + 1]

DeadlinePassed(t, deadline) == t > deadline

NoReturn == [status |-> "none", processed |-> NoCount, failed |-> NoCount, error |-> NoText]
Returned(status, processed, failed, error) ==
    [status |-> status, processed |-> processed, failed |-> failed, error |-> error]

NewRecipient(hasVar) ==
    [pc |-> "new", attempt |-> 0, wakeAt |-> 0, sent |-> FALSE, result |-> "none",
     hasVar |-> hasVar, sendCalls |-> 0, late |-> FALSE, spin |-> FALSE,
     transientFail |-> FALSE]

ExecIdle ==
    /\ ex = [pc |-> "idle", timeout |-> 0, deadline |-> 0, n |-> 0, nInvalid |-> 0,
             sem |-> 0, batch_size |-> 0, sideFailed |-> {}, updateFailedFor |-> {}, query |-> "none", resets |-> 0,
             success_count |-> 0, failed_count |-> 0, completed_count |-> 0,
             tplVar |-> FALSE, gathered |-> FALSE, ret |-> NoReturn,
             engine |-> "active"]
    /\ rcp = <<>>
    /\ semWaiters = <<>>
    /\ logWrites = <<>>

\* What the backend holds for the workflow's delivery engine: a config whose
\* status is active, one whose status is not, or none.
EngineConfigs == {"active", "inactive", "missing"}

\* execute_workflow is called with timeout_seconds.
ExecInit ==
    /\ \E t \in ExecTimeouts, e \in EngineConfigs :
          ex = [pc |-> "entry", timeout |-> t, deadline |-> 0, n |-> 0, nInvalid |-> 0,
                sem |-> 0, batch_size |-> 0, sideFailed |-> {}, updateFailedFor |-> {}, query |-> "none", resets |-> 0,
             success_count |-> 0, failed_count |-> 0, completed_count |-> 0,
                tplVar |-> FALSE, gathered |-> FALSE, ret |-> NoReturn, engine |-> e]
    /\ rcp = <<>>
    /\ semWaiters = <<>>
    /\ logWrites = <<>>

\* A limiter pass with wait_time <= 0 loops without awaiting (see NoSpinner).
NoExecSpinner == \A i \in DOMAIN rcp : ~(rcp[i].pc = "rlWait" /\ rcp[i].spin)

\* The run ends: the log update u is issued and r is returned.
ExecEnds(u, r) ==
    /\ ex' = [ex EXCEPT !.pc = "done", !.ret = r]
    /\ logWrites' = logWrites \o u

\* The fetch of the workflow, the deadline and the creation of the log entry.
ExecBegin ==
    /\ ex.pc = "entry"
    /\ \E wf \in {"found", "missing"}, logOk \in BOOLEAN :
          IF wf = "missing"
          THEN ExecEnds(<<>>, Returned("failed", NoCount, NoCount, "Workflow not found"))
          ELSE IF ~logOk
          THEN ExecEnds(<<>>, Returned("failed", NoCount, NoCount, "Failed to create log entry"))
          ELSE /\ ex' = [ex EXCEPT !.pc = "created", !.deadline = now + ex.timeout]
               /\ logWrites' = <<update_status("queued", NoText, NoCount, NoCount)>>
    /\ UNCHANGED <<now, rl, callers, acqLog, rcp, semWaiters, retryVars, schedVars, utilVars>>

\* The deadline check before initialization, then the update to running.
ExecInitialize ==
    /\ ex.pc = "created"
    /\ IF DeadlinePassed(now, ex.deadline)
       THEN ExecEnds(
              <<update_status("timed_out", "Execution timed out before initialization.",
                              NoCount, NoCount)>>,
              Returned("timed_out", NoCount, NoCount,
                       "Execution timed out before initialization."))
       ELSE /\ ex' = [ex EXCEPT !.pc = "running"]
            /\ logWrites' = Append(logWrites, update_status("running", NoText, NoCount, NoCount))
    /\ UNCHANGED <<now, rl, callers, acqLog, rcp, semWaiters, retryVars, schedVars, utilVars>>

\* A configuration error raised inside the try block: the generic handler.
ExecFails(msg) ==
    /\ ExecEnds(<<update_status("failed", msg, NoCount, NoCount)>>,
                Returned("failed", NoCount, NoCount, msg))
    /\ UNCHANGED <<rl, rcp, semWaiters>>

\* What the backend makes of the recipient query, as resolve sees it: the call
\* fails, it returns no row with an email, or it returns rows with emails.
ExecQueries == {"fails", "no_usable_rows", "rows"}

\* Mutant of ResolveOutcome: a failure of the query is raised to the caller.
ResolveOutcomeRaises(q) ==
    IF q = "fails" THEN "raised" ELSE IF q = "no_usable_rows" THEN "empty" ELSE "lists"

\* resolve: `except Exception: return [], []` and `if not raw_recipients:
\* return [], []`; else the two lists of validate_emails, not both empty.
ResolveOutcome(q) ==
    IF q \in {"fails", "no_usable_rows"} THEN "empty" ELSE "lists"

\* What follows the update to running, in the code's order: the engine
\* config, the template, the recipient query (q), the resolution (n valid emails,
\* m invalid ones), EngineBuilder.build, the limiter, the semaphore and the
\* process_recipient tasks (hv: whether a recipient's context has the variable
\* the template may reference).
Prepared(problem, q, n, m, engineActive, batch, rate, tplVar, hv) ==
    IF problem = "no_engine"
    THEN ExecFails("No valid engine configuration found.")
    ELSE IF problem = "no_template"
    THEN ExecFails("Template not found.")
    ELSE IF problem = "no_sql"
    THEN ExecFails("Workflow missing recipient_list_sql.")
    ELSE IF ResolveOutcome(q) = "raised"
    THEN /\ ex' = [ex EXCEPT !.pc = "done", !.query = q,
                             !.ret = Returned("failed", NoCount, NoCount,
                                              "Error resolving recipients")]
         /\ logWrites' = Append(logWrites,
               update_status("failed", "Error resolving recipients", NoCount, NoCount))
         /\ UNCHANGED <<rl, rcp, semWaiters>>
    ELSE IF n = 0 /\ m = 0
    THEN /\ ex' = [ex EXCEPT !.pc = "done", !.query = q,
                             !.ret = Returned("success", 0, 0, NoText)]
         /\ logWrites' = Append(logWrites, update_status("success", NoText, 0, 0))
         /\ UNCHANGED <<rl, rcp, semWaiters>>
    ELSE IF n = 0
    THEN /\ ex' = [ex EXCEPT !.pc = "done", !.nInvalid = m, !.query = q,
                             !.ret = Returned("failed", NoCount, NoCount,
                                              "All recipients had invalid emails")]
         /\ logWrites' = Append(logWrites, update_status("failed", NoText, 0, 0))
         /\ UNCHANGED <<rl, rcp, semWaiters>>
    ELSE IF ~engineActive
    THEN /\ ex' = [ex EXCEPT !.pc = "done", !.n = n, !.nInvalid = m, !.query = q,
                             !.ret = Returned("failed", NoCount, NoCount,
                                              "Engine is not active.")]
         /\ logWrites' = Append(logWrites,
               update_status("failed", "Engine is not active.", NoCount, NoCount))
         /\ UNCHANGED <<rl, rcp, semWaiters>>
    ELSE /\ ex' = [ex EXCEPT !.pc = "sending", !.n = n, !.nInvalid = m, !.query = q,
                             !.sem = batch, !.batch_size = batch,
                             !.tplVar = tplVar, !.gathered = TRUE]
         /\ rl' = LimiterNew(rate, now)
         /\ rcp' = [i \in 1..n |-> NewRecipient(hv[i])]
         /\ UNCHANGED <<semWaiters, logWrites>>

\* The synchronous stretch from the update to running to `await asyncio.gather`.
ExecPrepare ==
    /\ ex.pc = "running"
    /\ \E problem \in (IF ex.engine = "missing" THEN {"no_engine"}
                        ELSE {"none", "no_template", "no_sql"}),
          q \in ExecQueries,
          n \in (0..MaxValid) \cup {progress_every}, m \in 0..MaxInvalid,
          engineActive \in {ex.engine = "active"},
          batch \in ExecBatchSizes \cup {default_batch_size},
          rate \in ExecRateLimits, tplVar \in BOOLEAN :
          \E hv \in [1..n -> BOOLEAN] :
             /\ tplVar \/ \A i \in 1..n : hv[i]
             /\ LargeRun(n) <=> batch = default_batch_size
             /\ LargeRun(n) => m = 0 /\ ~tplVar /\ rate = default_rate_limit /\ engineActive
                                /\ problem = "none" /\ ex.timeout = default_timeout_seconds
             /\ (ResolveOutcome(q) = "lists") <=> (n + m > 0)
             /\ Prepared(problem, q, n, m, engineActive, batch, rate, tplVar, hv)
    /\ UNCHANGED <<now, callers, acqLog, retryVars, schedVars, utilVars>>

\* `async with semaphore` is entered: a task waits if no slot is free.
locked_never(sem) == FALSE

locked(sem) == sem <= 0

\* Mutant of ReleaseSem: leaving the semaphore frees no slot and wakes nobody.
ReleaseSemNever(sem, q, R) == [sem |-> sem, q |-> q, rcp |-> R]

\* `async with semaphore` is left: the first waiter gets the slot, else it is free.
ReleaseSem(sem, q, R) ==
    IF q # <<>>
    THEN [sem |-> sem, q |-> Tail(q), rcp |-> [R EXCEPT ![Head(q)].pc = "semGranted"]]
    ELSE [sem |-> sem + 1, q |-> q, rcp |-> R]

\* Inside the semaphore at time t: rate_limiter.acquire(), the rendering and the
\* first call of the provider.  R, E, B, Q: the tasks, the run, the limiter and
\* the semaphore's queue so far; first: this is the task's first pass of acquire.
InGate(i, R, E, B, Q, t, first) ==
    LET d == IF B.rate_limit <= 0
             THEN [rl |-> B, granted |-> TRUE, wait_time |-> 0]
             ELSE LimiterEnter(B, 1, t)
        r == [R[i] EXCEPT !.late = @ \/ (first /\ t > E.deadline), !.spin = FALSE]
    IN  IF ~d.granted
        THEN [rcp |-> [R EXCEPT ![i] = [r EXCEPT !.pc = "rlWait",
                                                 !.wakeAt = t + Max(d.wait_time, 0),
                                                 !.spin = d.wait_time <= 0]],
              ex |-> E, rl |-> d.rl, q |-> Q]
        ELSE IF E.tplVar /\ ~r.hasVar
        THEN \* render raises ValueError: `except Exception` counts a failure
             LET rel == ReleaseSem(E.sem, Q,
                           [R EXCEPT ![i] = [r EXCEPT !.pc = "done", !.result = "error", !.wakeAt = 0]])
             IN  [rcp |-> rel.rcp, ex |-> [E EXCEPT !.failed_count = @ + 1, !.sem = rel.sem],
                  rl |-> d.rl, q |-> rel.q]
        ELSE [rcp |-> [R EXCEPT ![i] = [r EXCEPT !.pc = "sending", !.wakeAt = 0]],
              ex |-> E, rl |-> d.rl, q |-> Q]

\* The step of a task ends in g (a result of InGate).
GateStep(g) ==
    /\ rcp' = g.rcp
    /\ ex' = g.ex
    /\ rl' = g.rl
    /\ semWaiters' = g.q
    /\ UNCHANGED <<now, logWrites, callers, acqLog, retryVars, schedVars, utilVars>>

\* process_recipient returns `result` with the run's counters c: the semaphore
\* is left.
RecipientLeaves(i, result, c) ==
    LET rel == ReleaseSem(c.sem, semWaiters,
                          [rcp EXCEPT ![i].pc = "done", ![i].result = result,
                                      ![i].wakeAt = 0, ![i].attempt = 0, ![i].sent = FALSE])
    IN  /\ rcp' = rel.rcp
        /\ semWaiters' = rel.q
        /\ ex' = [c EXCEPT !.sem = rel.sem]

\* A process_recipient task starts (tasks start in list order): the deadline
\* check, then the semaphore.
RecipientStart(i) ==
    /\ ex.pc = "sending"
    /\ rcp[i].pc = "new"
    /\ \A j \in 1..(i - 1) : rcp[j].pc # "new"
    /\ NoExecSpinner
    /\ IF DeadlinePassed(now, ex.deadline)
       THEN /\ rcp' = [rcp EXCEPT ![i].pc = "done", ![i].result = "timed_out"]
            /\ UNCHANGED <<now, ex, rl, semWaiters, logWrites, callers, acqLog,
                           retryVars, schedVars, utilVars>>
       ELSE IF ~locked(ex.sem)
       THEN GateStep(InGate(i, rcp, [ex EXCEPT !.sem = @ - 1], rl, semWaiters, now, TRUE))
       ELSE /\ rcp' = [rcp EXCEPT ![i].pc = "semWait"]
            /\ semWaiters' = Append(semWaiters, i)
            /\ UNCHANGED <<now, ex, rl, logWrites, callers, acqLog, retryVars, schedVars, utilVars>>

\* A task that waited for the semaphore got it.
RecipientSemGranted(i) ==
    /\ ex.pc = "sending"
    /\ rcp[i].pc = "semGranted"
    /\ NoExecSpinner
    /\ GateStep(InGate(i, rcp, ex, rl, semWaiters, now, TRUE))

\* The limiter's sleep is over (or there was none): the next pass of acquire.
RecipientLimiterRetry(i) ==
    /\ ex.pc = "sending"
    /\ rcp[i].pc = "rlWait"
    /\ now >= rcp[i].wakeAt
    /\ rcp[i].spin \/ NoExecSpinner
    /\ GateStep(InGate(i, rcp, ex, rl, semWaiters, now, FALSE))

\* sender.send returns what a sender that catches its exceptions makes of the
\* outcome o (transientFail: it was a transient failure, returned as False):
\* the post-send sleep begins.
SendReturns(i, o) ==
    /\ ex.pc = "sending"
    /\ rcp[i].pc = "sending"
    /\ NoExecSpinner
    /\ LargeRun(ex.n) => o.ok
    /\ rcp' = [rcp EXCEPT ![i].pc = "postSleep", ![i].sent = send_sync(o),
                          ![i].transientFail = ~o.ok /\ is_transient_error(o.err),
                          ![i].sendCalls = @ + 1, ![i].wakeAt = now + post_send_delay]
    /\ UNCHANGED <<now, ex, rl, semWaiters, logWrites, callers, acqLog, retryVars, schedVars, utilVars>>

\* sender.send raises e: _send_with_retry sleeps and retries, or re-raises and
\* `except Exception` counts a failure.
SendRaises(i, e) ==
    /\ ex.pc = "sending"
    /\ ~LargeRun(ex.n)
    /\ rcp[i].pc = "sending"
    /\ NoExecSpinner
    /\ LET d == RetryOnException(rcp[i].attempt, send_max_attempts, e) IN
          IF d.next = "sleep"
          THEN /\ rcp' = [rcp EXCEPT ![i].pc = "retrySleep", ![i].attempt = d.attempt,
                                     ![i].sendCalls = @ + 1, ![i].wakeAt = now + d.delay]
               /\ UNCHANGED <<ex, semWaiters>>
          ELSE LET rel == ReleaseSem(ex.sem, semWaiters,
                             [rcp EXCEPT ![i].pc = "done", ![i].result = "error",
                                         ![i].transientFail = is_transient_error(e),
                                         ![i].attempt = 0, ![i].sendCalls = @ + 1])
               IN  /\ rcp' = rel.rcp
                   /\ semWaiters' = rel.q
                   /\ ex' = [ex EXCEPT !.failed_count = @ + 1, !.sem = rel.sem]
    /\ UNCHANGED <<now, rl, logWrites, callers, acqLog, retryVars, schedVars, utilVars>>

\* The backoff sleep is over: the next call of the provider.
RetryWake(i) ==
    /\ ex.pc = "sending"
    /\ rcp[i].pc = "retrySleep"
    /\ now >= rcp[i].wakeAt
    /\ NoExecSpinner
    /\ rcp' = [rcp EXCEPT ![i].pc = "sending", ![i].wakeAt = 0]
    /\ UNCHANGED <<now, ex, rl, semWaiters, logWrites, callers, acqLog, retryVars, schedVars, utilVars>>

\* Mutant of AfterRecipientUpdate: the failure of the update query reaches
\* the handler of process_recipient.
AfterRecipientUpdatePropagates(c, result, raised) ==
    IF raised
    THEN [ex |-> [c EXCEPT !.failed_count = @ + 1], result |-> "error"]
    ELSE [ex |-> c, result |-> result]

\* The per-recipient update query of an accepted send, in its own try/except:
\* a failure is logged; the counters c and the result stay.
AfterRecipientUpdate(c, result, raised) == [ex |-> c, result |-> result]

\* The post-send sleep is over: the counters, the progress update every five
\* recipients, the update query of an accepted send (raised: it failed), the
\* result.
PostSleepDone(i, raised) ==
    /\ ex.pc = "sending"
    /\ rcp[i].pc = "postSleep"
    /\ now >= rcp[i].wakeAt
    /\ NoExecSpinner
    /\ raised => rcp[i].sent /\ ~LargeRun(ex.n)
    /\ LET c == CountSend(ex, rcp[i].sent)
           a == AfterRecipientUpdate(c, IF rcp[i].sent THEN "success" ELSE "failed", raised)
       IN
          /\ RecipientLeaves(i, a.result,
                [a.ex EXCEPT !.updateFailedFor = IF raised THEN @ \cup {i} ELSE @])
          /\ logWrites' =
                IF (c.success_count + c.failed_count) % progress_every = 0
                THEN Append(logWrites,
                            update_status("running", NoText, c.success_count, c.failed_count))
                ELSE logWrites
    /\ UNCHANGED <<now, rl, callers, acqLog, retryVars, schedVars, utilVars>>

\* Mutant of Closing: a failed reset query or report ends the run failed.
ClosingPromotesFailure(final, ret, resetRaised, reportRaised) ==
    IF resetRaised
    THEN [writes |-> <<update_status("failed", "reset failed", NoCount, NoCount)>>,
          ret |-> Returned("failed", NoCount, NoCount, "reset failed")]
    ELSE IF reportRaised
    THEN [writes |-> <<final, update_status("failed", "report failed", NoCount, NoCount)>>,
          ret |-> Returned("failed", NoCount, NoCount, "report failed")]
    ELSE [writes |-> <<final>>, ret |-> ret]

\* After the final status is computed: the success-reset query, the final
\* update of the log and the run report; the reset and the report are each in
\* a try/except that logs the failure.
Closing(final, ret, resetRaised, reportRaised) == [writes |-> <<final>>, ret |-> ret]

\* Mutant of ResetRuns: the reset query runs before the deadline is checked.
ResetRunsBeforeDeadlineCheck(timedOut, reset_sql, success_count, failed_count) ==
    IF reset_sql /\ (success_count > 0 \/ failed_count > 0) THEN 1 ELSE 0

\* How often the closing part of a run executes the success-reset query: the
\* TimeoutError is raised before it; `if reset_sql and (success_count > 0 or
\* failed_count > 0)`.
ResetRuns(timedOut, reset_sql, success_count, failed_count) ==
    IF ~timedOut /\ reset_sql /\ (success_count > 0 \/ failed_count > 0) THEN 1 ELSE 0

\* asyncio.gather returned: the last deadline check, the final status, the
\* reset query (reset_sql: the workflow has one), the final update of the log,
\* the report and the returned dict.
ExecFinish(reset_sql, resetRaised, reportRaised) ==
    /\ ex.pc = "sending"
    /\ \A i \in DOMAIN rcp : rcp[i].pc = "done"
    /\ (resetRaised \/ reportRaised) =>
          ~DeadlinePassed(now, ex.deadline) /\ ~LargeRun(ex.n)
    /\ resetRaised =>
          ResetRuns(DeadlinePassed(now, ex.deadline), reset_sql,
                    ex.success_count, ex.failed_count) > 0
    /\ IF DeadlinePassed(now, ex.deadline)
       THEN /\ ex' = [ex EXCEPT
                        !.pc = "done",
                        !.ret = Returned("timed_out", NoCount, NoCount,
                                         "Execution timed out during sending."),
                        !.resets = @ + ResetRuns(TRUE, reset_sql,
                                                 ex.success_count, ex.failed_count)]
            /\ logWrites' = logWrites \o SendingTimedOut
       ELSE LET c == Closing(
                       update_status(FinalStatus(ex.failed_count, ex.n), NoText,
                                     ex.success_count, ex.failed_count + ex.nInvalid),
                       Returned("success", ex.success_count, ex.failed_count, NoText),
                       resetRaised, reportRaised)
            IN  /\ ex' = [ex EXCEPT !.pc = "done", !.ret = c.ret,
                                    !.resets = @ + ResetRuns(FALSE, reset_sql,
                                                   ex.success_count, ex.failed_count),
                                    !.sideFailed = (IF resetRaised THEN {"reset"} ELSE {})
                                        \cup (IF reportRaised THEN {"report"} ELSE {})]
                /\ logWrites' = logWrites \o c.writes
    /\ UNCHANGED <<now, rl, rcp, semWaiters, callers, acqLog, retryVars, schedVars, utilVars>>

ExecTimePasses ==
    /\ now + ExecTimeStep <= MaxExecTime
    /\ now' = now + ExecTimeStep
    /\ UNCHANGED <<execVars, retryVars, limiterVars, schedVars, utilVars>>

(***************************************************************************)
(* utils/email_validator_lite.py and executor/recipient_resolver.py        *)
(***************************************************************************)

MaxEmails == 2
MaxValidateCalls == 2

\* Sample addresses, as character sequences.
EmailAX == <<"a", "@", "x", ".", "i", "o">>
EmailAXPadded == <<" ", "A", "@", "X", ".", "i", "o", " ">>
EmailBY == <<"b", "@", "y", ".", "i", "o">>
EmailShortTld == <<"a", "@", "x", ".", "i">>
EmailNoAt == <<"a", "x", ".", "i", "o">>
EmailBadDomain == <<"a", "@", "x", "_", ".", "i", "o">>
RawEmails == {EmailAX, EmailAXPadded, EmailBY, EmailShortTld, EmailNoAt, EmailBadDomain}

\* A row without recipient_email and email, or with an empty one.
NoEmail == <<>>

Whitespace == {" "}
Letters == {"a", "b", "x", "y", "i", "o", "A", "X"}
Digits == {"1"}
\* [A-Za-z0-9._%+\-] and [A-Za-z0-9.\-] on the characters the samples use
LocalChars == Letters \cup Digits \cup {".", "_", "%", "+", "-"}
DomainChars == Letters \cup Digits \cup {".", "-"}

SetMin(S) == CHOOSE x \in S : \A y \in S : x <= y
SetMax(S) == CHOOSE x \in S : \A y \in S : x >= y

\* str.strip()
Strip(s) ==
    LET keep == {i \in 1..Len(s) : s[i] \notin Whitespace} IN
    IF keep = {} THEN <<>> ELSE SubSeq(s, SetMin(keep), SetMax(keep))

\* email.strip().lower()
NormalizeEmail(e) == Lower(Strip(e))

\* Mutant of syntax_ok: the top-level domain may be one letter.
syntax_ok_short_tld(e) ==
    \E a \in 1..Len(e), d \in 1..Len(e) :
       /\ e[a] = "@" /\ e[d] = "."
       /\ a > 1 /\ d > a + 1 /\ Len(e) - d >= 1
       /\ \A i \in 1..(a - 1) : e[i] \in LocalChars
       /\ \A i \in (a + 1)..(d - 1) : e[i] \in DomainChars
       /\ \A i \in (d + 1)..Len(e) : e[i] \in Letters

\* _EMAIL_REGEX.match: ^[local]+@[domain]+\.[A-Za-z]{2,}$ (a: the @, d: the dot
\* before the top-level domain).
syntax_ok(e) ==
    \E a \in 1..Len(e), d \in 1..Len(e) :
       /\ e[a] = "@" /\ e[d] = "."
       /\ a > 1 /\ d > a + 1 /\ Len(e) - d >= 2
       /\ \A i \in 1..(a - 1) : e[i] \in LocalChars
       /\ \A i \in (a + 1)..(d - 1) : e[i] \in DomainChars
       /\ \A i \in (d + 1)..Len(e) : e[i] \in Letters

\* email.split("@")[-1]
DomainOf(e) ==
    LET ats == {i \in 1..Len(e) : e[i] = "@"} IN
    IF ats = {} THEN e ELSE SubSeq(e, SetMax(ats) + 1, Len(e))

\* What one lookup of a domain meets: dns.resolver.resolve(domain, "MX")
\* answers (mx) or raises, and then socket.getaddrinfo answers (addr) or raises.
DnsOutcomes ==
    { [mx |-> TRUE, addr |-> TRUE], [mx |-> FALSE, addr |-> TRUE],
      [mx |-> FALSE, addr |-> FALSE] }

InCache(cache, d) == \E c \in cache : c.domain = d
CacheValue(cache, d) == (CHOOSE c \in cache : c.domain = d).result

\* Mutant of has_mx: a negative result is not cached.
has_mx_no_negative_cache(cache, d, dns) ==
    IF InCache(cache, d)
    THEN [result |-> CacheValue(cache, d), cache |-> cache, queries |-> <<>>]
    ELSE IF dns.mx
    THEN [result |-> TRUE, cache |-> cache \cup {[domain |-> d, result |-> TRUE]},
          queries |-> <<"MX">>]
    ELSE IF dns.addr
    THEN [result |-> TRUE, cache |-> cache \cup {[domain |-> d, result |-> TRUE]},
          queries |-> <<"MX", "addr">>]
    ELSE [result |-> FALSE, cache |-> cache, queries |-> <<"MX", "addr">>]

\* _has_mx: the cached result, else the MX query, else the address fallback;
\* queries: the DNS queries it issued.
has_mx(cache, d, dns) ==
    IF InCache(cache, d)
    THEN [result |-> CacheValue(cache, d), cache |-> cache, queries |-> <<>>]
    ELSE IF dns.mx
    THEN [result |-> TRUE, cache |-> cache \cup {[domain |-> d, result |-> TRUE]},
          queries |-> <<"MX">>]
    ELSE IF dns.addr
    THEN [result |-> TRUE, cache |-> cache \cup {[domain |-> d, result |-> TRUE]},
          queries |-> <<"MX", "addr">>]
    ELSE [result |-> FALSE, cache |-> cache \cup {[domain |-> d, result |-> FALSE]},
          queries |-> <<"MX", "addr">>]

ValidateIdle == vd = [pc |-> "idle"]

\* The lists of at most MaxEmails elements of S.
ListsOf(S) == UNION {[1..k -> S] : k \in 0..MaxEmails}

SetOf(q) == {q[i] : i \in 1..Len(q)}

\* The keys of a dict filled in the order of q.
RECURSIVE InsertionOrder(_)
InsertionOrder(q) ==
    IF q = <<>> THEN <<>>
    ELSE LET r == InsertionOrder(SubSeq(q, 1, Len(q) - 1)) IN
         IF q[Len(q)] \in SetOf(r) THEN r ELSE Append(r, q[Len(q)])

\* domain_emails, read domain by domain: the emails of the domains ds.
RECURSIVE EmailsOn(_, _)
EmailsOn(ds, emails) ==
    IF ds = <<>> THEN <<>>
    ELSE SelectSeq(emails, LAMBDA e : DomainOf(e) = Head(ds)) \o EmailsOn(Tail(ds), emails)

\* What the backend answers to the recipient query: it fails, or it returns
\* rows (each row by its email column).
QueryOutcomes ==
    {[ok |-> FALSE, rows |-> <<>>]}
       \cup {[ok |-> TRUE, rows |-> r] : r \in ListsOf(RawEmails \cup {NoEmail})}

\* resolve, the loop over the rows: a Recipient for every row with an email.
RawRecipients(rows) ==
    LET truthy == SelectSeq(rows, LAMBDA e : e # NoEmail) IN
    [i \in 1..Len(truthy) |-> NormalizeEmail(truthy[i])]

NoneReturned == [valid |-> <<>>, invalid |-> <<>>]

\* Mutant of valid_recipients: every Recipient of the query is kept.
valid_recipients_unfiltered(raw_recipients, valid_emails_list) == raw_recipients

\* valid_recipients = [r for r in raw_recipients if r.email in valid_set]
valid_recipients(raw_recipients, valid_emails_list) ==
    SelectSeq(raw_recipients, LAMBDA e : e \in SetOf(valid_emails_list))

ValidateFresh ==
    [pc |-> "ready", calls |-> 0, via |-> "none", skip_mx |-> FALSE, failed |-> FALSE,
     input |-> <<>>, raw |-> <<>>, syntax_ok |-> <<>>, syntax_fail |-> <<>>,
     pending |-> {}, domain_results |-> {}, cache |-> {}, cachedAtStart |-> {},
     lookups |-> {}, ret |-> NoneReturned, sent |-> {}]

ValidateInit == vd = ValidateFresh

\* validate_emails up to the thread pool: the syntax check of every email and,
\* with skip_mx, the return.
ValidateBegin(emails, skip, via, raw, input) ==
    LET n  == [i \in 1..Len(emails) |-> NormalizeEmail(emails[i])]
        ok == SelectSeq(n, syntax_ok)
        bad == SelectSeq(n, LAMBDA e : ~syntax_ok(e))
        uniq == {DomainOf(ok[i]) : i \in 1..Len(ok)}
    IN  vd' = [ValidateFresh EXCEPT
                 !.pc = IF skip THEN "returned" ELSE "mx",
                 !.calls = vd.calls + 1, !.via = via, !.skip_mx = skip,
                 !.input = input, !.raw = raw, !.syntax_ok = ok, !.syntax_fail = bad,
                 !.pending = IF skip THEN {} ELSE uniq,
                 !.cache = vd.cache,
                 !.cachedAtStart = {c.domain : c \in vd.cache},
                 !.ret = IF skip THEN [valid |-> ok, invalid |-> bad] ELSE NoneReturned]

\* validate_emails(emails, skip_mx) called directly (dry_run_validation.py).
ValidateCall(emails, skip) ==
    /\ vd.pc \in {"ready", "returned"}
    /\ vd.calls < MaxValidateCalls
    /\ ValidateBegin(emails, skip, "validate", <<>>, emails)
    /\ UNCHANGED <<now, eb, lg, retryVars, limiterVars, schedVars, execVars>>

\* RecipientResolver.resolve up to the thread pool of validate_emails, or to
\* its return of two empty lists.
ResolveCall(q) ==
    /\ vd.pc \in {"ready", "returned"}
    /\ vd.calls < MaxValidateCalls
    /\ LET raw == RawRecipients(q.rows) IN
          IF ~q.ok \/ raw = <<>>
          THEN vd' = [ValidateFresh EXCEPT
                        !.pc = "returned", !.calls = vd.calls + 1, !.via = "resolve",
                        !.failed = ~q.ok, !.input = q.rows, !.cache = vd.cache,
                        !.cachedAtStart = {c.domain : c \in vd.cache}]
          ELSE ValidateBegin(raw, FALSE, "resolve", raw, q.rows)
    /\ UNCHANGED <<now, eb, lg, retryVars, limiterVars, schedVars, execVars>>

\* One pool thread runs _has_mx(d); the loop over as_completed stores its result.
MxLookup(d, dns) ==
    /\ vd.pc = "mx"
    /\ d \in vd.pending
    /\ LET r == has_mx(vd.cache, d, dns) IN
          vd' = [vd EXCEPT
                   !.pending = @ \ {d},
                   !.cache = r.cache,
                   !.domain_results = @ \cup {[domain |-> d, result |-> r.result]},
                   !.lookups = IF r.queries = <<>> THEN @
                               ELSE @ \cup {[domain |-> d, mx |-> dns.mx,
                                             addr |-> ~dns.mx /\ dns.addr]}]
    /\ UNCHANGED <<now, eb, lg, retryVars, limiterVars, schedVars, execVars>>

\* The pool is done: the emails are classified by their domain's result, and
\* resolve keeps the Recipients whose email is in the valid set.
ValidateClassify ==
    /\ vd.pc = "mx"
    /\ vd.pending = {}
    /\ LET ds == InsertionOrder([i \in 1..Len(vd.syntax_ok) |-> DomainOf(vd.syntax_ok[i])])
           passes(d) == \E r \in vd.domain_results : r.domain = d /\ r.result
           valid == EmailsOn(SelectSeq(ds, passes), vd.syntax_ok)
           invalid == vd.syntax_fail
                        \o EmailsOn(SelectSeq(ds, LAMBDA d : ~passes(d)), vd.syntax_ok)
       IN  vd' = [vd EXCEPT
                    !.pc = "returned",
                    !.ret = IF vd.via = "resolve"
                            THEN [valid |-> valid_recipients(vd.raw, valid),
                                  invalid |-> invalid]
                            ELSE [valid |-> valid, invalid |-> invalid]]
    /\ UNCHANGED <<now, eb, lg, retryVars, limiterVars, schedVars, execVars>>

\* execute_workflow after resolve returned: the task of the k-th Recipient of
\* the returned list calls the provider for its email.
SendToResolved(k) ==
    /\ vd.pc = "returned"
    /\ vd.via = "resolve"
    /\ k \in 1..Len(vd.ret.valid)
    /\ vd.ret.valid[k] \notin vd.sent
    /\ vd' = [vd EXCEPT !.sent = @ \cup {vd.ret.valid[k]}]
    /\ UNCHANGED <<now, eb, lg, retryVars, limiterVars, schedVars, execVars>>

(***************************************************************************)
(* executor/engine_builder.py                                              *)
(***************************************************************************)

\* A key the config dict does not have.
Absent == "<absent>"

\* EngineType: the values of the enum.
EngineTypeValues == {"smtp", "mailgun", "sendgrid", "aws_ses", "outlook_api"}

\* The configs tried: status and engine_type by value, the other keys by presence.
StatusValues == {Absent, "active", "inactive"}
TypeValues ==
    {Absent, "", "smtp", "SMTP", "mailgun", "sendgrid", "SENDGRID", "aws_ses",
     "outlook_api", "postmark"}
OtherKeys == {"from_email", "api_key", "host", "username", "password"}
EngineConfigDicts ==
    [status : StatusValues, engine_type : TypeValues, keys : SUBSET OtherKeys]

\* str.lower() on the engine_type strings tried.
LowerType(e) ==
    CASE e = "SMTP" -> "smtp"
      [] e = "SENDGRID" -> "sendgrid"
      [] OTHER -> e

\* build, step 2: EngineType(e_type), else EngineType(e_type.lower()), else the
\* string is left as it is; a missing engine_type is not a str and is skipped.
NormalizeType(e) ==
    IF e = Absent THEN e
    ELSE IF e \in EngineTypeValues THEN e
    ELSE IF LowerType(e) \in EngineTypeValues THEN LowerType(e)
    ELSE e

Raises(msg) == [kind |-> "raises", value |-> msg]
Sender(class) == [kind |-> "sender", value |-> class]
Valid == [kind |-> "valid", value |-> ""]

\* Mutant of validate_config: a missing engine_type is accepted.
validate_config_type_optional(config) ==
    IF "from_email" \notin config.keys
    THEN Raises("Missing 'from_email' in configuration.")
    ELSE IF config.engine_type = "aws_ses"
            /\ {"host", "username", "password"} \ config.keys # {}
    THEN Raises("AWS SES requires")
    ELSE IF config.engine_type = "sendgrid" /\ "api_key" \notin config.keys
    THEN Raises("SendGrid requires 'api_key'")
    ELSE IF config.engine_type = "mailgun" /\ "api_key" \notin config.keys
    THEN Raises("Mailgun requires 'api_key'")
    ELSE Valid

\* EngineBuilder.validate_config
validate_config(config) ==
    IF config.engine_type \in {Absent, ""}
    THEN Raises("Missing 'engine_type' in configuration.")
    ELSE IF "from_email" \notin config.keys
    THEN Raises("Missing 'from_email' in configuration.")
    ELSE IF config.engine_type = "aws_ses"
            /\ {"host", "username", "password"} \ config.keys # {}
    THEN Raises("AWS SES requires")
    ELSE IF config.engine_type = "sendgrid" /\ "api_key" \notin config.keys
    THEN Raises("SendGrid requires 'api_key'")
    ELSE IF config.engine_type = "mailgun" /\ "api_key" \notin config.keys
    THEN Raises("Mailgun requires 'api_key'")
    ELSE Valid

\* build, step 3: the sender class for the engine type.
SenderFor(t) ==
    CASE t = "smtp" -> Sender("SMTPSender")
      [] t = "mailgun" -> Sender("MailgunSender")
      [] t = "sendgrid" -> Sender("SendGridSender")
      [] t = "aws_ses" -> Sender("AWSSESSender")
      [] OTHER -> Sender("SMTPSender")

\* Mutant of build: the status is looked at after the validation.
build_status_last(engine_config) ==
    LET config == [engine_config EXCEPT !.engine_type = NormalizeType(@)]
        v == validate_config(config)
    IN  IF v.kind = "raises" THEN v
        ELSE IF engine_config.status \notin {Absent, "active"}
        THEN Raises("is not active.")
        ELSE SenderFor(config.engine_type)

\* EngineBuilder.build: the status, the normalisation of engine_type, the
\* validation, the construction.
build(engine_config) ==
    IF engine_config.status \notin {Absent, "active"}
    THEN Raises("is not active.")
    ELSE LET config == [engine_config EXCEPT !.engine_type = NormalizeType(@)]
             v == validate_config(config)
         IN  IF v.kind = "raises" THEN v ELSE SenderFor(config.engine_type)

BuildIdle == eb = [pc |-> "idle"]

NoResult == [kind |-> "none", value |-> ""]

BuildInit == \E c \in EngineConfigDicts : eb = [pc |-> "config", config |-> c, result |-> NoResult]

\* EngineBuilder.validate_config(config) is called on its own.
ValidateConfig ==
    /\ eb.pc = "config"
    /\ eb' = [eb EXCEPT !.pc = "validated", !.result = validate_config(eb.config)]
    /\ UNCHANGED <<now, vd, lg, retryVars, limiterVars, schedVars, execVars>>

\* EngineBuilder.build(config) is called.
Build ==
    /\ eb.pc = "config"
    /\ eb' = [eb EXCEPT !.pc = "built", !.result = build(eb.config)]
    /\ UNCHANGED <<now, vd, lg, retryVars, limiterVars, schedVars, execVars>>

(***************************************************************************)
(* executor/workflow_executor.py: the creation of the execution log        *)
(***************************************************************************)

\* _SAFE_PARAM_KEYS
SAFE_PARAM_KEYS == {"candidate_id", "email", "trigger_type"}

\* The keys and values of the run contexts tried.
ContextKeys == SAFE_PARAM_KEYS \cup {"password", "access_token"}
ContextValues == {"v1", "v2"}

\* The dicts over these keys: a function from the keys present to their values.
ExecutionContexts == UNION {[K -> ContextValues] : K \in SUBSET ContextKeys}

\* Mutant of safe_params: the whole context is stored.
safe_params_unfiltered(execution_context) == execution_context

\* safe_params = {k: v for k, v in execution_context.items() if k in _SAFE_PARAM_KEYS}
safe_params(execution_context) ==
    [k \in DOMAIN execution_context \cap SAFE_PARAM_KEYS |-> execution_context[k]]

Runs == {1, 2}

NoLogEntry == [status |-> "none"]

LogIdle == lg = <<>>

\* Two execute_workflow calls, each with its execution_context.
LogInit ==
    \E c \in [Runs -> ExecutionContexts] :
        lg = [r \in Runs |-> [execution_context |-> c[r], log_entry |-> NoLogEntry]]

\* Run r builds its log_entry and hands it to log_client.create.
CreateLog(r) ==
    /\ lg[r].log_entry = NoLogEntry
    /\ lg' = [lg EXCEPT ![r].log_entry =
                 [status |-> "queued",
                  parameters_used |-> safe_params(lg[r].execution_context)]]
    /\ UNCHANGED <<now, vd, eb, retryVars, limiterVars, schedVars, execVars>>

InitLog ==
    now = 0 /\ LogInit /\ ValidateIdle /\ BuildIdle /\ RetryIdle /\ LimiterIdle /\ SchedIdle /\ ExecIdle

NextLog == \E r \in Runs : CreateLog(r)

SpecLog == InitLog /\ [][NextLog]_vars

InitRetry == now = 0 /\ RetryInit /\ LimiterIdle /\ SchedIdle /\ ExecIdle /\ ValidateIdle /\ BuildIdle /\ LogIdle

NextRetry ==
    \/ \E v \in BOOLEAN : RetryFuncReturns(v)
    \/ \E e \in ErrorMessages : RetryFuncRaises(e)
    \/ RetrySleepDone
    \/ RetryTimePasses

InitBuild ==
    now = 0 /\ BuildInit /\ ValidateIdle /\ LogIdle /\ RetryIdle /\ LimiterIdle /\ SchedIdle /\ ExecIdle

NextBuild ==
    \/ ValidateConfig
    \/ Build

SpecBuild == InitBuild /\ [][NextBuild]_vars

InitValidate ==
    now = 0 /\ ValidateInit /\ BuildIdle /\ LogIdle /\ RetryIdle /\ LimiterIdle /\ SchedIdle /\ ExecIdle

NextValidate ==
    \/ \E emails \in ListsOf(RawEmails), skip \in BOOLEAN : ValidateCall(emails, skip)
    \/ \E q \in QueryOutcomes : ResolveCall(q)
    \/ \E d \in vd.pending, dns \in DnsOutcomes : MxLookup(d, dns)
    \/ ValidateClassify
    \/ \E k \in 1..MaxEmails : SendToResolved(k)

SpecValidate == InitValidate /\ [][NextValidate]_vars

SpecRetry == InitRetry /\ [][NextRetry]_vars

InitLimiter == now = 0 /\ LimiterInit /\ RetryIdle /\ SchedIdle /\ ExecIdle /\ ValidateIdle /\ BuildIdle /\ LogIdle

NextLimiter ==
    \/ \E c \in Callers, tokens \in 1..MaxTokensAsked : AcquireUnlimited(c, tokens)
    \/ \E c \in Callers : AcquireCall(c)
    \/ \E c \in Callers : AcquireWake(c)
    \/ \E c \in Callers : AcquireSpin(c)
    \/ LimiterTimePasses

SpecLimiter == InitLimiter /\ [][NextLimiter]_vars

\* The liveness specification of the limiter: a positive limit, calls made
\* while the clock is young, and a clock that runs long enough after the last
\* call for every waiting caller to see the refills it needs.
MaxCallTime == 31
LiveHorizon == MaxCallTime + NumCallers * MaxCallsPerCaller * (RefillWindow + 32)

InitLimiterLive ==
    /\ InitLimiter
    /\ ~Unlimited(rl)

LiveCall(c) ==
    /\ now <= MaxCallTime
    /\ AcquireCall(c)

\* The clock advances; a caller whose sleep is over runs before it advances
\* again (the event loop wakes a sleeper when its time has come, unless a
\* caller that loops without awaiting keeps the event loop busy; that caller
\* makes its next pass as soon as the clock has moved past the window).
LiveTimePasses ==
    /\ \A c \in Callers : callers[c].pc = "spinning" => now - rl.last_refill <= RefillWindow
    /\ NoSpinner => \A c \in Callers : callers[c].pc = "sleeping" => now < callers[c].wakeAt
    /\ \E d \in TimeSteps :
          /\ now + d <= LiveHorizon
          /\ now' = now + d
    /\ UNCHANGED <<retryVars, limiterVars, schedVars, execVars, utilVars>>

NextLimiterLive ==
    \/ \E c \in Callers : LiveCall(c)
    \/ \E c \in Callers : AcquireWake(c)
    \/ \E c \in Callers : AcquireSpin(c)
    \/ LiveTimePasses

\* The event loop runs every task that is ready, and the clock advances.
SpecLimiterLive ==
    /\ InitLimiterLive
    /\ [][NextLimiterLive]_vars
    /\ \A c \in Callers : WF_vars(AcquireWake(c)) /\ WF_vars(AcquireSpin(c))
    /\ WF_vars(LiveTimePasses)

InitLock == now = 0 /\ LockInit /\ RetryIdle /\ SchedIdle /\ ExecIdle /\ ValidateIdle /\ BuildIdle /\ LogIdle

NextLock ==
    \/ \E c \in Callers : LockCall(c)
    \/ \E c \in Callers : LockEnter(c)
    \/ \E c \in Callers : LockRefill(c)
    \/ \E c \in Callers : LockCheck(c)
    \/ \E c \in Callers : LockDeduct(c)
    \/ \E c \in Callers : LockLeave(c)
    \/ \E c \in Callers : LockWake(c)
    \/ LimiterTimePasses

SpecLock == InitLock /\ [][NextLock]_vars

InitSched == now = SchedStart /\ SchedInit /\ RetryIdle /\ LimiterIdle /\ ExecIdle /\ ValidateIdle /\ BuildIdle /\ LogIdle

NextSched ==
    \/ Tick
    \/ \E r \in DOMAIN runners : RunnerNotActive(r)
    \/ \E r \in DOMAIN runners : RunnerLockRefused(r)
    \/ \E r \in DOMAIN runners : RunnerLockAcquired(r)
    \/ \E r \in DOMAIN runners, st \in ReturnedStatuses : RunnerExecutorReturns(r, st)
    \/ \E r \in DOMAIN runners : RunnerExecutorRaises(r)
    \/ SchedTimePasses

SpecSched == InitSched /\ [][NextSched]_vars

NextSchedCrash ==
    \/ NextSched
    \/ Crash

\* The scheduler with crashes of its process.
SpecSchedCrash == InitSched /\ [][NextSchedCrash]_vars

InitExec == now = 0 /\ ExecInit /\ RetryIdle /\ LimiterIdle /\ SchedIdle /\ ValidateIdle /\ BuildIdle /\ LogIdle

\* The steps of execute_workflow and of its recipient tasks.
ExecSteps ==
    \/ ExecBegin
    \/ ExecInitialize
    \/ ExecPrepare
    \/ \E i \in DOMAIN rcp : RecipientStart(i)
    \/ \E i \in DOMAIN rcp : RecipientSemGranted(i)
    \/ \E i \in DOMAIN rcp : RecipientLimiterRetry(i)
    \/ \E i \in DOMAIN rcp, o \in SendOutcomes : SendReturns(i, o)
    \/ \E i \in DOMAIN rcp, e \in ExecSendErrors : SendRaises(i, e)
    \/ \E i \in DOMAIN rcp : RetryWake(i)
    \/ \E i \in DOMAIN rcp, raised \in BOOLEAN : PostSleepDone(i, raised)
    \/ \E reset_sql, resetRaised, reportRaised \in BOOLEAN :
          ExecFinish(reset_sql, resetRaised, reportRaised)

NextExec ==
    \/ ExecSteps
    \/ ExecTimePasses

SpecExec == InitExec /\ [][NextExec]_vars

\* The liveness specification of the executor: the clock advances when every
\* task waits for it (a task that can run runs before the clock moves on), far
\* enough for the longest run of the model: every recipient may wait for a
\* refill behind every other, for two backoff sleeps and for its post-send sleep.
LongestRun == Max(MaxValid, progress_every)
LiveExecHorizon == ExecTimeStep * (LongestRun * (3 * LongestRun + 3) + 2)

LiveExecTimePasses ==
    /\ ~ENABLED <<ExecSteps>>_vars
    /\ ex.pc # "done"
    /\ now + ExecTimeStep <= LiveExecHorizon
    /\ now' = now + ExecTimeStep
    /\ UNCHANGED <<execVars, retryVars, limiterVars, schedVars, utilVars>>

NextExecLive ==
    \/ ExecSteps
    \/ LiveExecTimePasses

\* Every backend call and provider call returns or raises, and time advances.
SpecExecLive ==
    /\ InitExec
    /\ [][NextExecLive]_vars
    /\ WF_vars(ExecSteps)
    /\ WF_vars(LiveExecTimePasses)

(***************************************************************************)
(* Properties                                                              *)
(***************************************************************************)

\* The runners that are inside execute_workflow for schedule s.
Executing(s) ==
    {r \in DOMAIN runners : runners[r].pc = "executing" /\ runners[r].sid = s}

\* C1: for every schedule at most one execute_workflow call is in flight at any
\* time, whatever runners the loop launched on successive ticks, and while one
\* is in flight the schedule is locked (is_running = 1): the executor runs only
\* between a successful lock_schedule and the unlocking update of that runner.
C1_AtMostOneExecutionInFlight ==
    \A s \in DOMAIN sched :
       /\ Cardinality(Executing(s)) <= 1
       /\ Executing(s) # {} => sched[s].is_running = 1

\* A second runner was launched for a schedule whose run is still in flight.
C1_Witness ==
    \E r1, r2 \in DOMAIN runners :
       /\ runners[r1].pc = "executing"
       /\ runners[r2].pc = "launched"
       /\ runners[r1].sid = runners[r2].sid

\* C2: a run_schedule step in which lock_schedule returned false invokes no
\* executor, issues no schedule update and leaves every field of every schedule
\* (next_run_at, last_run_at, is_running, run_parameters) as it was.
C2_LockRefusedChangesNothing ==
    [][(lastRun'.step = "lock_refused" /\ Len(runners') < Len(runners))
         => /\ sched' = sched
            /\ ~lastRun'.executor
            /\ lastRun'.puts = 0
            /\ \A s \in DOMAIN sched :
                  Cardinality(Executing(s))' = Cardinality(Executing(s))]_vars

\* A runner was refused the lock of a schedule that is running.
C2_Witness ==
    /\ lastRun.step = "lock_refused"
    /\ sched[lastRun.sid].is_running = 1
    /\ Executing(lastRun.sid) # {}

\* Number of acquisitions at a time in (t - 60, t]: together with the one at t
\* they lie in one window of 60 seconds.
AcquiredWithin(t) ==
    Cardinality({k \in 1..Len(acqLog) : t - RefillWindow < acqLog[k] /\ acqLog[k] <= t})

\* C3 as claimed: with rate_limit_per_minute = R > 0 no window of 60 seconds, at
\* whatever time it starts, holds more than R successful acquisitions.
C3_AnySlidingWindow ==
    rl.rate_limit > 0 =>
       \A k \in 1..Len(acqLog) : AcquiredWithin(acqLog[k]) <= rl.rate_limit

\* C3 as amended: no more than R acquisitions succeed from one refill (or the
\* construction) to the next, that is within the 60 seconds that start at a
\* refill; a window of 60 seconds that straddles a refill holds at most 2R.
C3_PerRefillWindow ==
    rl.rate_limit > 0 =>
       /\ Cardinality({k \in 1..Len(acqLog) : acqLog[k] >= rl.last_refill}) <= rl.rate_limit
       /\ \A k \in 1..Len(acqLog) :
             /\ acqLog[k] >= rl.last_refill => acqLog[k] <= rl.last_refill + RefillWindow
             /\ AcquiredWithin(acqLog[k]) <= 2 * rl.rate_limit

\* More than R acquisitions within 60 seconds, on the two sides of a refill.
C3_Witness ==
    /\ rl.rate_limit > 0
    /\ rl.last_refill > 0
    /\ \E k \in 1..Len(acqLog) : AcquiredWithin(acqLog[k]) > rl.rate_limit

\* The recipients of the run by the result of their task.
WithResult(S) == {i \in DOMAIN rcp : rcp[i].result \in S}
\* The run has ended after its process_recipient tasks were gathered.
SendingEnded == ex.pc = "done" /\ ex.gathered

\* C4 as claimed: at the end of a run that resolved recipients and sent,
\* success count + failure count + skipped-invalid count = recipients resolved.
C4_CountsSumToResolved ==
    SendingEnded =>
       ex.success_count + ex.failed_count + ex.nInvalid = ex.n + ex.nInvalid

\* C4 as amended: the recipients skipped because the deadline had passed are in
\* none of the three counts; with them the sum is the number resolved, and the
\* counts are those of the tasks' results.
C4_CountsAndDeadlineSkipsSumToResolved ==
    SendingEnded =>
       /\ ex.success_count = Cardinality(WithResult({"success"}))
       /\ ex.failed_count = Cardinality(WithResult({"failed", "error"}))
       /\ ex.success_count + ex.failed_count + ex.nInvalid
            + Cardinality(WithResult({"timed_out"})) = ex.n + ex.nInvalid

\* A run with an accepted send, an invalid address and a recipient skipped for
\* the deadline.
C4_Witness ==
    /\ SendingEnded
    /\ ex.success_count >= 1
    /\ ex.nInvalid >= 1
    /\ WithResult({"timed_out"}) # {}

\* The status of the k-th write to the log is a terminal one.
TerminalAt(k) == logWrites[k].status \in TerminalStatuses

\* The first write is queued and no later one is; nothing but the same terminal
\* status follows a terminal status.
StatusOrder ==
    \A k \in 1..Len(logWrites) :
       /\ (k = 1) <=> (logWrites[k].status = "queued")
       /\ \A j \in 1..(k - 1) : TerminalAt(j) => logWrites[k].status = logWrites[j].status

\* C5 as claimed: queued, then running (possibly repeated), then a terminal
\* status, and nothing different after it.
C5_QueuedRunningTerminal ==
    /\ StatusOrder
    /\ \A k \in 1..Len(logWrites) :
          TerminalAt(k) => \E j \in 1..(k - 1) : logWrites[j].status = "running"

\* C5 as amended: running is skipped when the deadline has passed before the
\* initialization (timed_out follows queued); the terminal status is written
\* once, or twice with the same value timed_out after a timeout during sending.
C5_QueuedThenRunningUnlessEarlyTimeout ==
    /\ StatusOrder
    /\ \A k \in 1..Len(logWrites) :
          TerminalAt(k) =>
             \/ \E j \in 1..(k - 1) : logWrites[j].status = "running"
             \/ /\ k = 2
                /\ logWrites[k].status = "timed_out"
                /\ logWrites[k].error = "Execution timed out before initialization."
    /\ Cardinality({k \in 1..Len(logWrites) : TerminalAt(k)}) <= 2
    /\ \A k \in 2..Len(logWrites) :
          TerminalAt(k) /\ TerminalAt(k - 1) => logWrites[k].status = "timed_out"

\* A run that timed out during sending: the terminal status is written twice.
C5_Witness ==
    /\ Len(logWrites) = 4
    /\ logWrites[2].status = "running"
    /\ logWrites[3].status = "timed_out"
    /\ logWrites[4].status = "timed_out"

\* C6: with_retry(max_attempts = N) calls the operation at most N times; a call
\* that returns is the last one: the wrapper has returned after exactly as many
\* calls as there were failures before it plus one, with that call's result.
C6_AtMostMaxAttemptsCalls ==
    /\ rt.calls <= rt.max_attempts
    /\ rt.calls = Len(rtHist)
    /\ \A k \in 1..Len(rtHist) :
          rtHist[k].kind = "return" =>
             /\ k = Len(rtHist)
             /\ rt.pc = "returned"
             /\ rt.calls = k
             /\ rt.sleeps = k - 1

\* The third call succeeds after two transient failures.
C6_Witness ==
    /\ rt.pc = "returned"
    /\ rt.calls = 3
    /\ rtHist[1] = [kind |-> "raise", value |-> ErrTimeout]
    /\ rtHist[2] = [kind |-> "raise", value |-> Err503]

\* The k-th call raised an error matching none of the transient markers.
NonTransientAt(k) == rtHist[k].kind = "raise" /\ rtHist[k].value = ErrRejected

\* C7: a call that raises an error matching none of the transient markers is the
\* last call: the wrapper has re-raised, without a sleep after that call; as the
\* first failure it makes exactly one call.
C7_NonTransientNeverRetried ==
    \A k \in 1..Len(rtHist) :
       NonTransientAt(k) =>
          /\ k = Len(rtHist)
          /\ rt.pc = "raised"
          /\ rt.calls = k
          /\ rt.sleeps = k - 1

\* A non-transient error on the second of at least three attempts.
C7_Witness ==
    /\ rt.max_attempts >= 3
    /\ Len(rtHist) = 2
    /\ NonTransientAt(2)
    /\ rt.pc = "raised"

\* C8: once the deadline has passed no recipient's processing (the rate-limit
\* token acquisition, then rendering and send) is started; the recipients not
\* yet started are abandoned and the run ends timed_out.
C8_NoProcessingStartsAfterDeadline ==
    /\ \A i \in DOMAIN rcp : ~rcp[i].late
    /\ (SendingEnded /\ WithResult({"timed_out"}) # {}) => ex.ret.status = "timed_out"

\* The status of the last write to the log.
LoggedStatus == logWrites[Len(logWrites)].status

\* C9: a run that finished sending before its deadline with n valid recipients
\* of which f failed is logged success iff f = 0, failed iff f = n and
\* partial_success iff 0 < f < n; with f = 0 it reports processed = n, failed = 0.
C9_FinalStatusByFailures ==
    (SendingEnded /\ ex.ret.status # "timed_out") =>
       LET f == Cardinality(WithResult({"failed", "error"})) IN
       /\ (LoggedStatus = "success") <=> (f = 0)
       /\ (LoggedStatus = "failed") <=> (f = ex.n)
       /\ (LoggedStatus = "partial_success") <=> (0 < f /\ f < ex.n)
       /\ f = 0 => /\ logWrites[Len(logWrites)].processed = ex.n
                   /\ ex.ret.processed = ex.n
                   /\ ex.ret.failed = 0

\* A run before its deadline in which some but not all recipients failed.
C9_Witness ==
    /\ SendingEnded
    /\ ex.ret.status # "timed_out"
    /\ WithResult({"success"}) # {}
    /\ WithResult({"failed", "error"}) # {}
    /\ LoggedStatus = "partial_success"

\* C10: when the template references a variable absent from the context of the
\* sample (first) recipient, the run ends failed with a "Template validation
\* failed" error, before any send is attempted for any recipient.
C10_TemplateValidatedBeforeSending ==
    (SendingEnded /\ ex.tplVar /\ ~rcp[1].hasVar) =>
       /\ LoggedStatus = "failed"
       /\ ex.ret.status = "failed"
       /\ ex.ret.error = "Template validation failed"
       /\ \A i \in DOMAIN rcp : rcp[i].sendCalls = 0

\* The run got as far as the update to running: its configuration was read.
Initialized == Len(logWrites) >= 2 /\ logWrites[2].status = "running"

\* C11: a run whose engine configuration is missing or not active is marked
\* failed and calls no provider, whatever the recipient resolution returned.
C11_BadEngineRunFails ==
    (ex.pc = "done" /\ Initialized /\ ex.engine # "active") =>
       /\ LoggedStatus = "failed"
       /\ ex.ret.status = "failed"
       /\ rcp = <<>>

\* C12: a recipient whose send raised (transient errors) k < 3 times and was
\* then accepted has had exactly k + 1 provider calls and is recorded as one
\* success, not as a failure; a run before its deadline in which every
\* recipient succeeded ends success with processed = the number of valid ones.
C12_RetriedSendIsOneSuccess ==
    /\ \A i \in DOMAIN rcp :
          /\ (rcp[i].pc = "postSleep" /\ rcp[i].sent) =>
                /\ rcp[i].attempt < send_max_attempts
                /\ rcp[i].sendCalls = rcp[i].attempt + 1
          /\ rcp[i].result = "success" => rcp[i].sendCalls \in 1..send_max_attempts
    /\ (SendingEnded /\ ex.ret.status # "timed_out"
          /\ WithResult({"success"}) = DOMAIN rcp) =>
             /\ ex.success_count = ex.n
             /\ ex.failed_count = 0
             /\ LoggedStatus = "success"
             /\ logWrites[Len(logWrites)].processed = ex.n
             /\ ex.ret.processed = ex.n

\* Every recipient succeeded, one of them on its third attempt.
C12_Witness ==
    /\ SendingEnded
    /\ ex.n >= 2
    /\ WithResult({"success"}) = DOMAIN rcp
    /\ \E i \in DOMAIN rcp : rcp[i].sendCalls = send_max_attempts
    /\ LoggedStatus = "success"

\* C13: a recipient whose send failed transiently (whether the sender raised
\* the error or, as SMTPSender does, returned False for it) is recorded as
\* failed only after max_attempts provider calls were made for it.
C13_TransientFailureRetriedToExhaustion ==
    \A i \in DOMAIN rcp :
       (rcp[i].result \in {"failed", "error"} /\ rcp[i].transientFail) =>
          rcp[i].sendCalls = send_max_attempts

\* The step is the return of a runner that held the lock of schedule s, and
\* its closing update (the first one it issued) reached the backend.
HolderReturns(s) ==
    /\ Len(runners') < Len(runners)
    /\ lastRun'.sid = s
    /\ lastRun'.step \in ReturnedStatuses \cup {"raised"}
    /\ lastRun'.puts = 1
    /\ sched'[s].is_running = 0

\* C14: a runner that acquired the lock of a schedule with a next_run_at leaves
\* the schedule with a next_run_at later than the current time, whether
\* execute_workflow returned (any status) or raised.
C14_NextRunAdvancedWhateverTheOutcome ==
    [][\A s \in DOMAIN sched :
          (HolderReturns(s) /\ sched[s].next_run_at # NoTime)
             => sched'[s].next_run_at > now]_vars

\* The largest number of recurrence intervals a run of the model skips.
MaxIntervals == DowntimeDays + MaxSchedHalfDays

HolderEnds(s) ==
    /\ Len(runners') < Len(runners)
    /\ lastRun'.sid = s
    /\ lastRun'.step \in ReturnedStatuses \cup {"raised"}

C17_ExecutesOnlyDueSchedules ==
    [][\A s \in DOMAIN sched :
          (runners' # runners /\ lastRun'.step = "lock_acquired" /\ lastRun'.sid = s) =>
             /\ sched[s].status = "active"
             /\ sched[s].next_run_at # NoTime
             /\ sched[s].next_run_at <= now]_vars

\* C18: one tick creates exactly one run_schedule task for every listed schedule
\* whose next_run_at is present and not later than now, none for a listed
\* schedule whose next_run_at is later or absent, and returns without any
\* run_schedule task having taken a step.
C18_TickLaunchesOnePerDueSchedule ==
    [][lastRun'.step = "tick" /\ (lastRun' # lastRun \/ runners' # runners) =>
          LET launchedFor(s) == {i \in (Len(runners) + 1)..Len(runners') :
                                    runners'[i].sid = s}
          IN  /\ Len(runners') >= Len(runners)
              /\ \A i \in 1..Len(runners) : runners'[i] = runners[i]
              /\ \A i \in (Len(runners) + 1)..Len(runners') :
                    /\ runners'[i].pc = "launched"
                    /\ runners'[i].sid \in lastRun'.listed
              /\ \A s \in lastRun'.listed :
                    Cardinality(launchedFor(s)) =
                       IF sched[s].next_run_at >= 0 /\ sched[s].next_run_at <= now
                       THEN 1 ELSE 0
              /\ sched' = sched]_vars

\* A tick listed two schedules, one due and one whose next_run_at an earlier
\* run had moved past now, and left one task, for the due one, just launched.
C18_Witness ==
    /\ lastRun.step = "tick"
    /\ Cardinality(lastRun.listed) = 2
    /\ Len(runners) = 1
    /\ runners[1].pc = "launched"
    /\ \E s, u \in lastRun.listed :
          /\ sched[s].next_run_at > now
          /\ sched[u].next_run_at >= 0
          /\ sched[u].next_run_at <= now
          /\ runners[1].sid = u

\* The process_recipient tasks that are inside `async with semaphore`.
InsideGate ==
    {i \in DOMAIN rcp :
        rcp[i].pc \in {"semGranted", "rlWait", "sending", "retrySleep", "postSleep"}}

\* C19: at every moment of a run the number of recipients inside the
\* concurrency gate (waiting for a token, sending, in a backoff sleep or in the
\* post-send delay) is at most the engine's batch_size.
C19_GateHoldsAtMostBatchSize ==
    ex.gathered => Cardinality(InsideGate) <= ex.batch_size

\* The gate of size 1 is full: one recipient is in its post-send delay after
\* a send and the other waits for the semaphore.
C19_Witness ==
    /\ ex.pc = "sending"
    /\ ex.batch_size = 1
    /\ Cardinality(InsideGate) = 1
    /\ \E i \in InsideGate : rcp[i].pc = "postSleep"
    /\ semWaiters # <<>>

\* The statuses of a process_recipient result.
ResultStatuses == {"success", "failed", "timed_out", "error"}

\* C20: under any interleaving of the process_recipient tasks, a recipient has
\* a result exactly when its task has returned, the result is one of success,
\* failed, timed_out, error and never changes afterwards, and at every step
\* success_count is the number of success results and failed_count the number
\* of failed or error results: no recipient is counted twice or lost.
C20_OneResultCountedOnce ==
    [][/\ \A i \in DOMAIN rcp' :
             /\ rcp'[i].result \in ResultStatuses \cup {"none"}
             /\ rcp'[i].result \in ResultStatuses <=> rcp'[i].pc = "done"
       /\ \A i \in DOMAIN rcp \cap DOMAIN rcp' :
             rcp[i].result # "none" => rcp'[i] = rcp[i]
       /\ ex'.success_count =
             Cardinality({i \in DOMAIN rcp' : rcp'[i].result = "success"})
       /\ ex'.failed_count =
             Cardinality({i \in DOMAIN rcp' : rcp'[i].result \in {"failed", "error"}})
       /\ ex'.success_count + ex'.failed_count <= ex'.n]_vars

\* Two tasks are interleaved: both were in the gate of size 2, one has returned
\* failed and is counted, the other holds an accepted send and is not counted yet.
C20_Witness ==
    /\ ex.pc = "sending"
    /\ ex.batch_size = 2
    /\ ex.failed_count = 1
    /\ ex.success_count = 0
    /\ \E i, j \in DOMAIN rcp :
          /\ rcp[i].result = "failed"
          /\ rcp[j].pc = "postSleep"
          /\ rcp[j].sent

\* The emails validate_emails was called with (by resolve: its raw recipients).
ValidatedInput == IF vd.via = "resolve" THEN vd.raw ELSE vd.input

\* The samples that are not of the form local@domain.tld.
MalformedSamples == {EmailShortTld, EmailNoAt, EmailBadDomain}

\* C21: every input email that, trimmed and lower-cased, is not of the form
\* local@domain.tld is in the returned invalid list, and no MX lookup is ever
\* pending or issued for what follows its @.
C21_MalformedInvalidAndNeverLookedUp ==
    vd.pc \in {"mx", "returned"} =>
       \A i \in 1..Len(ValidatedInput) :
          ValidatedInput[i] \in MalformedSamples =>
             LET e == Lower(Strip(ValidatedInput[i])) IN
             /\ DomainOf(e) \notin vd.pending
             /\ \A l \in vd.lookups : l.domain # DomainOf(e)
             /\ vd.pc = "returned" => e \in SetOf(vd.ret.invalid)

\* validate_emails returned for a malformed and a well-formed email, after a
\* lookup for the latter's domain.
C21_Witness ==
    /\ vd.pc = "returned"
    /\ vd.via = "validate"
    /\ ~vd.skip_mx
    /\ vd.input = <<EmailShortTld, EmailAXPadded>>
    /\ vd.lookups # {}
    /\ vd.ret.valid = <<EmailAX>>
    /\ vd.ret.invalid = <<EmailShortTld>>

\* The syntax-valid emails of the call on domain d are all in the returned
\* invalid list.
AllInvalidOn(d) ==
    \A i \in 1..Len(vd.syntax_ok) :
       DomainOf(vd.syntax_ok[i]) = d =>
          /\ vd.syntax_ok[i] \in SetOf(vd.ret.invalid)
          /\ vd.syntax_ok[i] \notin SetOf(vd.ret.valid)

\* A call with the MX check returned.
MxChecked == vd.pc = "returned" /\ ~vd.skip_mx /\ vd.syntax_ok # <<>>

C23_ValidatedRecipientsAreDistinct ==
    (vd.pc = "returned" /\ vd.via = "resolve") =>
       \A i, j \in 1..Len(vd.ret.valid) :
          vd.ret.valid[i] = vd.ret.valid[j] => i = j

\* The calls of acquire by caller c that have returned.
ServedCalls(c) == callers[c].served

\* The calls of acquire by the callers 1..k that have returned.
RECURSIVE ServedUpTo(_)
ServedUpTo(k) == IF k = 0 THEN 0 ELSE ServedCalls(k) + ServedUpTo(k - 1)

\* C24: with rate_limit_per_minute <= 0 every call of acquire, for any token
\* count and from any caller, has returned in the step it was made: no caller
\* is ever sleeping or looping, the token count and the refill timestamp are
\* those of the construction, and another call is possible at once.
C24_NoLimitNeverBlocks ==
    rl.rate_limit <= 0 =>
       /\ rl = [rate_limit |-> rl.rate_limit, tokens |-> rl.rate_limit, last_refill |-> 0]
       /\ \A c \in DOMAIN callers :
             /\ callers[c].pc = "idle"
             /\ callers[c].wakeAt = 0
             /\ ServedCalls(c) < MaxCallsPerCaller =>
                   \A tokens \in 1..MaxTokensAsked : ENABLED AcquireUnlimited(c, tokens)
       /\ Len(acqLog) = ServedUpTo(Len(callers))

\* A limiter with a negative limit served every call of both callers at the
\* time of construction.
C24_Witness ==
    /\ rl.rate_limit < 0
    /\ now = 0
    /\ callers # <<>>
    /\ \A c \in DOMAIN callers : ServedCalls(c) = MaxCallsPerCaller
    /\ Len(acqLog) = NumCallers * MaxCallsPerCaller

\* C25: a failure of a per-recipient update query, of the success-reset query
\* or of the run report changes neither the status nor the counts: a recipient
\* whose update query failed keeps its success result, and a run that finished
\* sending before its deadline writes one terminal update whose status and
\* counts follow from the send results alone, and returns those counts.
C25_SideEffectFailuresChangeNothing ==
    /\ \A i \in ex.updateFailedFor : rcp[i].result = "success"
    /\ (SendingEnded /\ ex.ret.status # "timed_out") =>
          LET s == Cardinality(WithResult({"success"}))
              f == Cardinality(WithResult({"failed", "error"}))
              status == IF f = 0 THEN "success"
                        ELSE IF f = Len(rcp) THEN "failed" ELSE "partial_success"
          IN  /\ logWrites[Len(logWrites)] =
                    [status |-> status, error |-> NoText, processed |-> s,
                     failed |-> f + ex.nInvalid]
              /\ \A k \in 1..(Len(logWrites) - 1) :
                    logWrites[k].status \notin TerminalStatuses
              /\ ex.ret = [status |-> "success", processed |-> s, failed |-> f,
                           error |-> NoText]

\* A run with one accepted send whose update query failed and one failed send
\* ended partial_success although the reset query and the report failed too.
C25_Witness ==
    /\ SendingEnded
    /\ ex.sideFailed = {"reset", "report"}
    /\ ex.updateFailedFor # {}
    /\ WithResult({"failed", "error"}) # {}
    /\ logWrites[Len(logWrites)].status = "partial_success"

\* C26: when the recipient query fails or returns no usable row, the run ends
\* success with processed = 0 and failed = 0, written to the log and returned,
\* and without a limiter, a semaphore, a process_recipient task or a send.
C26_FailedQueryEndsAsNoOp ==
    ex.query \in {"fails", "no_usable_rows"} =>
       /\ ex.pc = "done"
       /\ ex.ret = [status |-> "success", processed |-> 0, failed |-> 0, error |-> NoText]
       /\ logWrites[Len(logWrites)] =
             [status |-> "success", error |-> NoText, processed |-> 0, failed |-> 0]
       /\ \A k \in 1..(Len(logWrites) - 1) : logWrites[k].status \in {"queued", "running"}
       /\ rcp = <<>>
       /\ semWaiters = <<>>
       /\ ~ex.gathered
       /\ ex.batch_size = 0
       /\ rl = [rate_limit |-> 0, tokens |-> 0, last_refill |-> 0]
       /\ ex.success_count = 0 /\ ex.failed_count = 0 /\ ex.completed_count = 0

\* The query failed in a run whose engine is active, and the run ended.
C26_Witness ==
    /\ ex.query = "fails"
    /\ ex.engine = "active"
    /\ ex.ret.status = "success"
    /\ Len(logWrites) = 3

\* C27: in a run that resolved recipients, every terminal update of the log
\* that carries counts has processed = the accepted sends and failed = the send
\* failures plus the recipients skipped as invalid, the run whose recipients
\* are all invalid included.
C27_TerminalCountsIncludeInvalid ==
    (ex.pc = "done" /\ ex.query = "rows") =>
       \A k \in 1..Len(logWrites) :
          (logWrites[k].status \in TerminalStatuses /\ logWrites[k].failed # NoCount) =>
             /\ logWrites[k].processed = Cardinality(WithResult({"success"}))
             /\ logWrites[k].failed =
                   Cardinality(WithResult({"failed", "error"})) + ex.nInvalid

\* Every call of the operation so far failed with a transient error.
OnlyTransientFailures ==
    \A k \in 1..Len(rtHist) :
       rtHist[k].kind = "raise" /\ rtHist[k].value \in {ErrTimeout, Err503}

\* C28: while every attempt fails with a transient error, the wrapper sleeps
\* after each failure but the max_attempts-th; at that one it has called the
\* operation exactly max_attempts times, slept max_attempts - 1 times and
\* raised the error of that last call.
C28_ExhaustionReraisesLastError ==
    OnlyTransientFailures =>
       /\ Len(rtHist) <= rt.max_attempts
       /\ rt.calls = Len(rtHist)
       /\ rt.pc # "returned"
       /\ Len(rtHist) = rt.max_attempts =>
             /\ rt.pc = "raised"
             /\ rt.sleeps = rt.max_attempts - 1
             /\ rt.error = rtHist[Len(rtHist)].value
       /\ Len(rtHist) < rt.max_attempts =>
             /\ rt.pc \in {"calling", "sleeping"}
             /\ rt.sleeps = Len(rtHist)
             /\ rt.error = <<>>

\* Four attempts failed, the last with another transient error than the
\* first: the wrapper raised the last one after three sleeps.
C28_Witness ==
    /\ rt.max_attempts = 4
    /\ Len(rtHist) = 4
    /\ OnlyTransientFailures
    /\ rtHist[1].value = ErrTimeout
    /\ rtHist[4].value = Err503
    /\ rt.pc = "raised"
    /\ rt.error = Err503
    /\ rt.sleeps = 3


\* ---- EngineBuilder ----

BuiltFrom(c) == eb.pc = "built" /\ eb.config = c

ActiveStatus(c) == c.status \in {Absent, "active"}

\* C29: build never returns a sender for a config whose status is present and
\* not active (it raises the "not active" error whatever else the config lacks),
\* nor for a SendGrid or Mailgun config without api_key, nor for an AWS SES
\* config that lacks host, username or password.
C29_NoSenderForInactiveOrIncomplete ==
    \A c \in EngineConfigDicts :
        BuiltFrom(c) =>
            /\ ~ActiveStatus(c) => eb.result = Raises("is not active.")
            /\ c.engine_type \in {"sendgrid", "SENDGRID", "mailgun"} /\ "api_key" \notin c.keys
                   => eb.result.kind = "raises"
            /\ c.engine_type = "aws_ses" /\ {"host", "username", "password"} \ c.keys # {}
                   => eb.result.kind = "raises"

\* An inactive config that also lacks from_email was refused for its status.
C29_Witness ==
    /\ eb.pc = "built"
    /\ eb.config.status = "inactive"
    /\ "from_email" \notin eb.config.keys
    /\ eb.result = Raises("is not active.")

UnknownTypes == {"postmark", "outlook_api"}
UnspecifiedTypes == {Absent, ""}

\* C30 as stated: every active config with from_email whose engine_type is
\* unknown or unspecified is built as the SMTP sender.
C30_UnknownOrUnspecifiedIsSmtp ==
    \A c \in EngineConfigDicts :
        /\ BuiltFrom(c)
        /\ ActiveStatus(c)
        /\ "from_email" \in c.keys
        /\ c.engine_type \in UnknownTypes \cup UnspecifiedTypes
        => eb.result = Sender("SMTPSender")

\* C30 as the code has it: for an active config with from_email, an engine_type
\* that names no supported kind is built as the SMTP sender, and an absent or
\* empty engine_type is refused as missing.
C30_UnknownIsSmtpUnspecifiedRefused ==
    \A c \in EngineConfigDicts :
        BuiltFrom(c) /\ ActiveStatus(c) /\ "from_email" \in c.keys =>
            /\ c.engine_type \in UnknownTypes => eb.result = Sender("SMTPSender")
            /\ c.engine_type \in UnspecifiedTypes
                   => eb.result = Raises("Missing 'engine_type' in configuration.")

\* An active config with from_email and no engine_type was refused.
C30_Witness ==
    /\ eb.pc = "built"
    /\ eb.config.status = "active"
    /\ "from_email" \in eb.config.keys
    /\ eb.config.engine_type = Absent
    /\ eb.result.kind = "raises"

\* ---- The limiter's lock ----

InCriticalSection(c) == callers[c].pc \in {"refill", "check", "deduct", "leave"}

\* C31: the token count and the refill time are touched only by the caller that
\* holds the lock, a sleeping caller does not hold it, a caller deducts only
\* after finding a token under the lock it still holds; so the token count stays
\* within 0..rate_limit and no more than rate_limit acquisitions succeed from one
\* refill to the next.
C31_TokenAccountingUnderLock ==
    /\ \A c \in DOMAIN callers :
          /\ InCriticalSection(c) => rl.lock = c
          /\ callers[c].pc \in {"sleeping", "entering", "idle"} => rl.lock # c
          /\ callers[c].pc = "deduct" => rl.tokens >= 1
    /\ rl.tokens \in 0..rl.rate_limit
    /\ rl.granted <= rl.rate_limit

\* One caller sleeps for the refill while the other holds the lock, the bucket
\* having been emptied since the last refill.
C31_Witness ==
    /\ \E c, d \in DOMAIN callers :
          /\ callers[c].pc = "sleeping"
          /\ InCriticalSection(d)
          /\ rl.lock = d
    /\ rl.granted = rl.rate_limit
    /\ rl.last_refill > 0

\* ---- The limiter: progress ----

Waiting(c) == callers[c].pc \in {"sleeping", "spinning"}

\* C32: with a positive limit and the clock advancing, a caller of acquire(1)
\* that found the bucket empty and waits gets its token and returns.
C32_EveryWaitingCallerIsServed ==
    \A c \in Callers : (c \in DOMAIN callers /\ Waiting(c)) ~> (callers[c].pc = "idle")

\* Every caller was served and none waits, the last one served only after a
\* second refill: a caller that slept found the bucket empty again and slept on.
C32_Witness ==
    /\ callers # <<>>
    /\ \A c \in DOMAIN callers : callers[c].pc = "idle" /\ callers[c].served >= 1
    /\ Len(acqLog) > 2 * rl.rate_limit
    /\ rl.last_refill > 2 * RefillWindow

\* ---- Provider calls and tokens ----

RECURSIVE SendCallsUpTo(_)
\* The provider calls made for the first k recipients of the run.
SendCallsUpTo(k) == IF k = 0 THEN 0 ELSE rcp[k].sendCalls + SendCallsUpTo(k - 1)

\* C33: every provider call, retries included, has its own token: as long as the
\* bucket was not refilled (no more than 60 seconds have passed since the run
\* began), no more provider calls were made than tokens were taken, hence no
\* more than rate_limit_per_minute.
C33_EveryProviderCallHasItsToken ==
    (rl.rate_limit > 0 /\ now <= RefillWindow) =>
        /\ SendCallsUpTo(Len(rcp)) <= rl.rate_limit - rl.tokens
        /\ SendCallsUpTo(Len(rcp)) <= rl.rate_limit

\* ---- Validation before sending ----

\* C34: the provider is never called for an address the validator of that run
\* returned as invalid, and never while the validation of the run's recipients
\* is still going on.
C34_NoSendToInvalidNorBeforeValidation ==
    (vd.pc # "idle" /\ vd.sent # {}) =>
        /\ vd.sent \cap SetOf(vd.ret.invalid) = {}
        /\ \A e \in vd.sent : syntax_ok(e)
        /\ vd.pc = "returned"
        /\ vd.pending = {}

\* A run whose query returned a good and a bad address has sent to the good one.
C34_Witness ==
    /\ vd.pc = "returned"
    /\ vd.via = "resolve"
    /\ vd.ret.invalid # <<>>
    /\ vd.sent # {}
    /\ vd.sent = SetOf(vd.ret.valid)

\* ---- The success-reset query ----

\* C35: the success-reset query is executed at most once a run, only after
\* every recipient task has completed and only if a recipient was counted as
\* success or failed; never in a run that ends timed_out, that fails on its
\* configuration, or that had no valid recipient.
C35_ResetOnceAfterCountedSends ==
    /\ ex.resets <= 1
    /\ ex.resets > 0 =>
          /\ ex.pc = "done"
          /\ ex.n >= 1
          /\ \A i \in DOMAIN rcp : rcp[i].pc = "done"
          /\ ex.success_count > 0 \/ ex.failed_count > 0
          /\ ex.ret.status = "success"
          /\ logWrites[Len(logWrites)].status \in {"success", "partial_success", "failed"}
          /\ \A k \in 1..Len(logWrites) : logWrites[k].status # "timed_out"
    /\ (ex.pc = "done" /\ (ex.ret.status \in {"timed_out", "failed"} \/ ex.n = 0)) => ex.resets = 0

\* The reset query ran in a run whose every send failed.
C35_Witness ==
    /\ ex.pc = "done"
    /\ ex.resets = 1
    /\ ex.success_count = 0
    /\ ex.failed_count = ex.n

\* ---- The returned status and the logged status ----

\* C36: the status execute_workflow returns equals the terminal status it
\* wrote last to the run's execution log.
C36_ReturnedStatusIsLoggedStatus ==
    (ex.pc = "done" /\ logWrites # <<>>
        /\ logWrites[Len(logWrites)].status \in TerminalStatuses) =>
            ex.ret.status = logWrites[Len(logWrites)].status

\* ---- The runner's closing update ----

\* C37: when execute_workflow has returned and the runner's update of the
\* schedule took effect, that update is the only one the runner issued, and it
\* carried last_run_at, the advanced next_run_at and is_running = 0 together.
C37_OneClosingUpdate ==
    [][\A s \in DOMAIN sched :
          (HolderEnds(s) /\ lastRun'.step \in ReturnedStatuses /\ lastRun'.http.put) =>
              /\ lastRun'.puts = 1
              /\ sched'[s].is_running = 0
              /\ sched'[s].last_run_at = FormatSeconds(now)
              /\ sched'[s].next_run_at # NoTime
              /\ sched'[s].next_run_at > now]_vars

\* A runner's closing update took effect: one update, the schedule unlocked,
\* stamped with the time of the return and due again later.
C37_Witness ==
    /\ lastRun.step \in ReturnedStatuses
    /\ lastRun.http.put
    /\ lastRun.puts = 1
    /\ sched[lastRun.sid].is_running = 0
    /\ sched[lastRun.sid].last_run_at = FormatSeconds(now)
    /\ sched[lastRun.sid].next_run_at > now

\* ---- A crash between lock and unlock ----

\* The schedule is locked and no runner of the process holds the lock.
Orphaned(s) ==
    /\ sched[s].is_running = 1
    /\ \A r \in DOMAIN runners : ~(runners[r].sid = s /\ runners[r].pc = "executing")

\* C38: a schedule left locked by a crash between lock_schedule and the unlock
\* stays locked: no later step clears is_running, and every later runner of the
\* schedule is refused the lock, so none executes its workflow again.
C38_CrashLeavesScheduleLocked ==
    [][\A s \in DOMAIN sched :
          Orphaned(s) =>
             /\ Orphaned(s)'
             /\ (lastRun' # lastRun /\ lastRun'.sid = s)
                   => lastRun'.step \in {"lock_refused", "not_active"}]_vars

\* The process has just crashed with a due schedule locked.
C38_Witness ==
    /\ lastRun.step = "crash"
    /\ \E s \in DOMAIN sched :
          /\ Orphaned(s)
          /\ IsDue(sched[s], now)

\* ---- The executor: termination ----

\* C39: a run that created its log entry eventually writes a terminal status to
\* the log and returns; no recipient task waits forever for the semaphore or
\* the rate limiter.
C39_EveryLoggedRunEnds ==
    (logWrites # <<>>) ~>
        (/\ ex.pc = "done"
         /\ logWrites # <<>>
         /\ logWrites[Len(logWrites)].status \in TerminalStatuses
         /\ ex.ret.status \in TerminalStatuses
         /\ \A i \in DOMAIN rcp : rcp[i].pc = "done")

\* A run ended after a task had waited for the semaphore and the bucket had
\* been refilled for a waiting task.
C39_Witness ==
    /\ ex.pc = "done"
    /\ ex.batch_size < ex.n
    /\ rl.rate_limit > 0
    /\ rl.last_refill > 0
    /\ \A i \in DOMAIN rcp : rcp[i].pc = "done"
    /\ logWrites[Len(logWrites)].status \in TerminalStatuses

\* ---- parameters_used ----

\* The two contexts agree on key k: both lack it, or both have it with one value.
AgreeOn(c, d, k) ==
    /\ k \in DOMAIN c <=> k \in DOMAIN d
    /\ k \in DOMAIN c => c[k] = d[k]

Created(r) == lg[r].log_entry # NoLogEntry

\* C40: the parameters_used of a created log entry has no key but candidate_id,
\* email and trigger_type, with the context's values; two runs whose contexts
\* agree on these three keys create the same parameters_used, whatever else the
\* contexts hold.
C40_ParametersUsedHoldsSafeKeysOnly ==
    /\ \A r \in DOMAIN lg :
          Created(r) =>
             LET p == lg[r].log_entry.parameters_used
                 c == lg[r].execution_context
             IN  /\ DOMAIN p = DOMAIN c \cap {"candidate_id", "email", "trigger_type"}
                 /\ \A k \in DOMAIN p : p[k] = c[k]
    /\ \A r, q \in DOMAIN lg :
          (/\ Created(r)
           /\ Created(q)
           /\ \A k \in {"candidate_id", "email", "trigger_type"} :
                 AgreeOn(lg[r].execution_context, lg[q].execution_context, k))
             => lg[r].log_entry.parameters_used = lg[q].log_entry.parameters_used

\* Two runs with the same candidate and different passwords have created equal
\* log entries.
C40_Witness ==
    /\ lg # <<>>
    /\ \A r \in DOMAIN lg : Created(r)
    /\ "candidate_id" \in DOMAIN lg[1].execution_context
    /\ "password" \in DOMAIN lg[1].execution_context
    /\ "password" \in DOMAIN lg[2].execution_context
    /\ lg[1].execution_context["password"] # lg[2].execution_context["password"]
    /\ lg[1].log_entry = lg[2].log_entry
=============================================================================
